---- MODULE Spec2Model ----
(***************************************************************************)
(* Model of the client-side state reconciliation and caching layer of the  *)
(* Nexus Analyt dashboard (App.jsx): health-record merge and fetch, the    *)
(* watchlist snapshot cache, and the primary/compare selection reconciler. *)
(*                                                                         *)
(* Conventions.  A text is a sequence of one-character strings.  A JS      *)
(* object is a function from field names to field values; a field that is *)
(* absent is not in the DOMAIN.  A field value is <<>> for null and <<v>>  *)
(* for the value v, so "x.f != null" reads HasVal(x, "f").                 *)
(***************************************************************************)
EXTENDS Integers, Sequences, FiniteSets, TLC

VARIABLES
    primaryItemId,        \* resolver input, primary slot (text)
    pairOrContract,       \* resolver input, optional pair / contract (text)
    compareItemId,        \* resolver input, compare slot (text)
    watchlist,            \* sequence of symbols
    wlSnapshots,          \* rows of the last successful snapshot response
    wlCache,              \* symbol -> cached snapshot row
    wlErr,                \* watchlist error text shown next to the refresh button
    wlBusy,               \* a watchlist snapshot request is being awaited
    wlReqs,               \* watchlist snapshot requests in flight
    marketHealthMap,      \* symbol -> health record
    lsHealth,             \* localStorage: symbol -> [ts, data] of the last FULL health
    healthRefreshBusy,    \* manual health refresh in progress
    healthTask,           \* position of the running refreshSelectedHealthNow call
    healthReqs,           \* health requests in flight
    live,                 \* DEX live value of the primary slot
    healthScore,          \* DEX health value of the primary slot
    compareHealthScore,   \* DEX health value of the compare slot
    lastLiveByKey,        \* lastLiveByKeyRef.current
    lastHealthByKey,      \* lastHealthByKeyRef.current
    lastCompareHealthByKey, \* lastCompareHealthByKeyRef.current
    lastPrimaryKey,       \* lastPrimaryKeyRef.current
    lastCompareKey,       \* lastCompareKeyRef.current
    allReqs,              \* refreshAll calls suspended at an await
    busy,                 \* the shared busy flag (refreshAll, grid actions)
    gridOrders,           \* the order list of the last /grid/orders answer
    gridHiddenIds,        \* ids of the orders the user removed from the UI
    gridTimers,           \* number of live 15 s polling intervals
    ordersPollInFlight,   \* ordersPollInFlight.current
    gridReqs,             \* /grid/orders requests in flight
    err,                  \* the error toast text
    storageDown,          \* localStorage throws on every call
    thrown,               \* "" or the operation whose exception escaped
    mounted,              \* the App component has rendered and run its mount effects
    symbolMap,            \* symbol -> how the symbol is resolved (market id or DEX contract)
    addDexErr,            \* error text of the "add DEX token" form
    session,              \* grid session label
    autoRun,              \* grid autorun switch
    gridMeta,             \* meta data of the last grid start / tick answer
    gridAct,              \* the grid action suspended at an await
    manualPrice,          \* text of the manual order price input
    manualQty,            \* text of the manual order quantity input
    authToken,            \* backend auth token held in state
    lsToken,              \* localStorage: the persisted auth token
    lsLastActivity,       \* localStorage: time of the last recorded activity, 0 if none
    walletAddress,        \* connected wallet address
    walletChainId,        \* connected chain
    walletConnector,      \* "injected", "walletconnect" or empty
    acctListeners,        \* accountsChanged listeners: the address each one captured
    lsWallet,             \* localStorage: the wallet stored last, or Null
    now,                  \* Date.now(), in hours
    applied,              \* history: per symbol, the last health results applied
    refreshes,            \* history: number of manual health refreshes started
    ev                    \* the operation that produced the current state

vars == <<primaryItemId, pairOrContract, compareItemId, watchlist, wlSnapshots,
          wlCache, wlErr, wlBusy, wlReqs, marketHealthMap, lsHealth, healthRefreshBusy, healthTask,
          healthReqs, live, healthScore, compareHealthScore, lastLiveByKey,
          lastHealthByKey, lastCompareHealthByKey, lastPrimaryKey, lastCompareKey,
          allReqs, busy, gridOrders, gridHiddenIds, gridTimers, ordersPollInFlight,
          gridReqs, err, storageDown, thrown, mounted, symbolMap, addDexErr, session, autoRun,
          gridMeta, gridAct, manualPrice, manualQty, authToken, lsToken, lsLastActivity,
          walletAddress, walletChainId, walletConnector, acctListeners, lsWallet,
          now, applied, refreshes, ev>>

selVars == <<primaryItemId, pairOrContract, compareItemId>>
wlVars == <<watchlist, wlSnapshots, wlCache, wlErr, wlBusy, wlReqs>>
healthVars == <<marketHealthMap, lsHealth, healthRefreshBusy, healthTask, healthReqs>>
ordVars == <<gridOrders, gridHiddenIds, gridTimers, ordersPollInFlight, gridReqs>>
lsVars == <<storageDown, thrown, mounted>>
formVars == <<symbolMap, addDexErr>>
gridActVars == <<session, autoRun, gridMeta, gridAct, manualPrice, manualQty>>
walletVars == <<walletAddress, walletChainId, walletConnector>>
authVars == <<authToken, lsToken, lsLastActivity, walletVars, acctListeners, lsWallet>>
extVars == <<formVars, gridActVars, authVars>>
dexVars == <<live, healthScore, compareHealthScore, lastLiveByKey, lastHealthByKey,
             lastCompareHealthByKey, lastPrimaryKey, lastCompareKey, allReqs, busy>>

-----------------------------------------------------------------------------
(* JS values *)

Null == <<>>
Some(v) == <<v>>
EmptyObj == <<>>

\* x.f != null  (x an object)
HasVal(x, f) == f \in DOMAIN x /\ x[f] # Null

\* { ...a, ...b }
Spread(a, b) == [k \in DOMAIN a \cup DOMAIN b |-> IF k \in DOMAIN b THEN b[k] ELSE a[k]]

\* { ...a, [k]: v }
Put(a, k, v) == [j \in DOMAIN a \cup {k} |-> IF j = k THEN v ELSE a[j]]

\* x.f || {}   for an object-valued field
ObjOrEmpty(x, f) == IF HasVal(x, f) THEN x[f][1] ELSE EmptyObj

\* Array.isArray(x.f) ? x.f : []
ArrOrEmpty(x, f) == IF HasVal(x, f) THEN x[f][1] ELSE <<>>

\* Array.prototype.filter
FilterSeq(s, Keep(_)) == SelectSeq(s, Keep)

\* Array.prototype.slice(0, n)
Slice0(s, n) == SubSeq(s, 1, IF Len(s) < n THEN Len(s) ELSE n)

SeqToSet(s) == {s[i] : i \in 1..Len(s)}

-----------------------------------------------------------------------------
(* Texts *)

LowerCase == <<"a","b","c","d","e","f","g","h","i","j","k","l","m",
               "n","o","p","q","r","s","t","u","v","w","x","y","z">>
UpperCase == <<"A","B","C","D","E","F","G","H","I","J","K","L","M",
               "N","O","P","Q","R","S","T","U","V","W","X","Y","Z">>
Digits == {"0","1","2","3","4","5","6","7","8","9"}
WhiteSpace == {" "}

ToUpperChar(c) ==
    IF \E i \in 1..26 : LowerCase[i] = c
    THEN UpperCase[CHOOSE i \in 1..26 : LowerCase[i] = c]
    ELSE c

ToLowerChar(c) ==
    IF \E i \in 1..26 : UpperCase[i] = c
    THEN LowerCase[CHOOSE i \in 1..26 : UpperCase[i] = c]
    ELSE c

toUpperCase(t) == [i \in 1..Len(t) |-> ToUpperChar(t[i])]

RECURSIVE TrimLeft(_)
TrimLeft(t) == IF t # <<>> /\ Head(t) \in WhiteSpace THEN TrimLeft(Tail(t)) ELSE t

RECURSIVE TrimRight(_)
TrimRight(t) ==
    IF t # <<>> /\ t[Len(t)] \in WhiteSpace THEN TrimRight(SubSeq(t, 1, Len(t) - 1)) ELSE t

trim(t) == TrimRight(TrimLeft(t))

\* the character class [A-Z0-9._-]
SymbolChars == SeqToSet(UpperCase) \cup Digits \cup {".", "_", "-"}
IsSymbolChar(c) == c \in SymbolChars

\* the character class \w
WordChars == SeqToSet(UpperCase) \cup SeqToSet(LowerCase) \cup Digits \cup {"_"}

normalizeSymbol(x) == FilterSeq(toUpperCase(trim(x)), IsSymbolChar)

validateSymbol(x) == normalizeSymbol(x)

\* /\b24h\b/i.test(s)
Mentions24h(s) ==
    \E i \in 1..Len(s) :
        /\ i + 2 <= Len(s)
        /\ s[i] = "2" /\ s[i + 1] = "4" /\ ToLowerChar(s[i + 2]) = "h"
        /\ (i = 1 \/ s[i - 1] \notin WordChars)
        /\ (i + 2 = Len(s) \/ s[i + 3] \notin WordChars)

NotMentions24h(s) == ~Mentions24h(s)

-----------------------------------------------------------------------------
(* Health records *)

MultiDayFields == {"trend30d", "trend180d", "maxDrawdown180d", "drawdown180d"}

ReasonsCap == 12

HasMultiDay(m) == \E f \in MultiDayFields : HasVal(m, f)

\* Number.isFinite(Number(x.score)): Number(null) is 0, Number(undefined) is NaN
ScoreIsFinite(x) == "score" \in DOMAIN x

mergeReasons_incomingFirst(p, inc) ==
    LET keep == FilterSeq(ArrOrEmpty(p, "reasons"), NotMentions24h)
        add == FilterSeq(ArrOrEmpty(inc, "reasons"), Mentions24h)
    IN  Slice0(add \o keep, ReasonsCap)

\* lines 1417-1421: previous non-24h reasons, then incoming 24h reasons, capped
mergeReasons(p, inc) ==
    LET keep == FilterSeq(ArrOrEmpty(p, "reasons"), NotMentions24h)
        add == FilterSeq(ArrOrEmpty(inc, "reasons"), Mentions24h)
    IN  Slice0(keep \o add, ReasonsCap)

preserveMultiDay_incomingScore(p, inc) ==
    LET prevMetrics == ObjOrEmpty(p, "metrics")
        inMetrics == ObjOrEmpty(inc, "metrics")
        m1 == Put(Spread(p, inc), "metrics", Some(Spread(inMetrics, prevMetrics)))
    IN  Put(m1, "reasons", Some(mergeReasons(p, inc)))

\* lines 1411-1422: the branch taken when FAST brings no multi-day metrics
preserveMultiDay(p, inc) ==
    LET prevMetrics == ObjOrEmpty(p, "metrics")
        inMetrics == ObjOrEmpty(inc, "metrics")
        m1 == Put(Spread(p, inc), "metrics", Some(Spread(inMetrics, prevMetrics)))
        m2 == IF ScoreIsFinite(p) THEN Put(m1, "score", p["score"]) ELSE m1
    IN  Put(m2, "reasons", Some(mergeReasons(p, inc)))

mergeMarketHealth_overlayFull(prev, incoming, fast) ==
    IF incoming = Null THEN prev
    ELSE IF prev = Null THEN incoming
    ELSE Some(Spread(prev[1], incoming[1]))

\* a FULL merge that appends the incoming reasons to the stored ones
mergeMarketHealth_fullAppends(prev, incoming, fast) ==
    IF incoming = Null THEN prev
    ELSE IF prev = Null THEN incoming
    ELSE IF ~fast
    THEN Some(Put(incoming[1], "reasons",
                  Some(ArrOrEmpty(prev[1], "reasons") \o ArrOrEmpty(incoming[1], "reasons"))))
    ELSE
        LET p == prev[1]
            inc == incoming[1]
        IN  IF /\ HasMultiDay(ObjOrEmpty(p, "metrics"))
               /\ ~HasMultiDay(ObjOrEmpty(inc, "metrics"))
            THEN Some(preserveMultiDay(p, inc))
            ELSE Some(Spread(p, inc))

\* the merge with the overlay the other way round: stored fields win
mergeMarketHealth_prevWins(prev, incoming, fast) ==
    IF incoming = Null THEN prev
    ELSE IF prev = Null THEN incoming
    ELSE IF ~fast THEN incoming
    ELSE
        LET p == prev[1]
            inc == incoming[1]
        IN  IF /\ HasMultiDay(ObjOrEmpty(p, "metrics"))
               /\ ~HasMultiDay(ObjOrEmpty(inc, "metrics"))
            THEN Some(preserveMultiDay(p, inc))
            ELSE Some(Spread(inc, p))

\* prev and incoming are Null (undefined / not an object) or Some(object)
mergeMarketHealth(prev, incoming, fast) ==
    IF incoming = Null THEN prev
    ELSE IF prev = Null THEN incoming
    ELSE IF ~fast THEN incoming
    ELSE
        LET p == prev[1]
            inc == incoming[1]
        IN  IF /\ HasMultiDay(ObjOrEmpty(p, "metrics"))
               /\ ~HasMultiDay(ObjOrEmpty(inc, "metrics"))
            THEN Some(preserveMultiDay(p, inc))
            ELSE Some(Spread(p, inc))

-----------------------------------------------------------------------------
(* HTTP *)

\* What the network can answer to one request.
\*   neterr: fetch rejects; timeout: the AbortController fires;
\*   http: a response with status ok / not ok and a body that is empty,
\*   not JSON ("text"), or JSON (an object, or a scalar).
HttpFailures ==
    { [kind |-> "neterr"], [kind |-> "timeout"],
      [kind |-> "http", ok |-> FALSE, body |-> "text"],
      [kind |-> "http", ok |-> TRUE, body |-> "empty"],
      [kind |-> "http", ok |-> TRUE, body |-> "text"],
      [kind |-> "http", ok |-> TRUE, body |-> "scalar"] }

HttpJson(ok, obj) == [kind |-> "http", ok |-> ok, body |-> "json", obj |-> obj]

RawText == <<"<">>

\* jget / jpost: [threw, val]; val is Null, Some(object), or the scalar marker
ScalarVal == <<0, 0>>
jget(resp) ==
    IF resp.kind # "http" THEN [threw |-> TRUE, val |-> Null]
    ELSE
        LET data == CASE resp.body = "empty" -> Null
                      [] resp.body = "text" -> Some([raw |-> Some(RawText)])
                      [] resp.body = "scalar" -> ScalarVal
                      [] resp.body = "json" -> Some(resp.obj)
        IN  IF ~resp.ok THEN [threw |-> TRUE, val |-> Null]
            ELSE [threw |-> FALSE, val |-> data]

IsObject(v) == Len(v) = 1

\* r?.data || r
unwrapData(r) == IF IsObject(r) /\ HasVal(r[1], "data") THEN r[1]["data"] ELSE r

-----------------------------------------------------------------------------
(* Maps keyed by symbol or identity key *)

Get(m, k) == IF k \in DOMAIN m THEN Some(m[k]) ELSE Null

-----------------------------------------------------------------------------
(* Selection: values derived on every render *)

primarySymRaw == normalizeSymbol(primaryItemId)
compareSymRaw == normalizeSymbol(compareItemId)

NonEmpty(t) == t # <<>>

\* [primarySymRaw, compareSymRaw].filter((s) => validateSymbol(s))
selectedSyms == FilterSeq(<<primarySymRaw, compareSymRaw>>, NonEmpty)

-----------------------------------------------------------------------------
(* Market health: cache, fetch, manual refresh *)

HEALTH_FULL_CACHE_MAX_AGE_H == 6

\* Date.now() when the page is loaded, in hours; never 0
StartTime == 1

\* readFullHealthCache without the age test: a stored record is always used
readFullHealthCache_anyAge(symbol) ==
    LET S == normalizeSymbol(symbol)
    IN  IF storageDown \/ S = <<>> \/ S \notin DOMAIN lsHealth THEN Null
        ELSE Some(lsHealth[S].data)

\* Null when nothing usable is stored for the symbol, else Some(data)
readFullHealthCache(symbol) ==
    LET S == normalizeSymbol(symbol)
    IN  IF storageDown \/ S = <<>> \/ S \notin DOMAIN lsHealth THEN Null
        ELSE IF lsHealth[S].ts # 0 /\ now - lsHealth[S].ts > HEALTH_FULL_CACHE_MAX_AGE_H
             THEN Null
        ELSE Some(lsHealth[S].data)

\* a write that keeps the record stored first
writeFullHealthCache_keepFirst(ls, symbol, data) ==
    LET S == normalizeSymbol(symbol)
    IN  IF storageDown \/ S = <<>> \/ S \in DOMAIN ls THEN ls
        ELSE Put(ls, S, [ts |-> now, data |-> data])

\* the value of localStorage after writeFullHealthCache(symbol, data)
writeFullHealthCache(ls, symbol, data) ==
    LET S == normalizeSymbol(symbol)
    IN  IF storageDown \/ S = <<>> THEN ls ELSE Put(ls, S, [ts |-> now, data |-> data])

\* the market health effect (AUTO_HEALTH_POLL is false: hydrate only),
\* run when primarySymRaw or compareSymRaw changed; m is the map before it
RECURSIVE hydrateFrom(_, _)
hydrateFrom(m, syms) ==
    IF syms = <<>> THEN m
    ELSE LET cached == readFullHealthCache(Head(syms))
             m1 == IF cached # Null THEN Put(m, normalizeSymbol(Head(syms)), cached[1]) ELSE m
         IN  hydrateFrom(m1, Tail(syms))

\* the state left by one completed fetchMarketHealth(symbol, {fast}) whose
\* request was answered by resp: [map, ls, ret]
fetchMarketHealth(symbol, fast, resp) ==
    LET S == normalizeSymbol(symbol)
        r == jget(resp)
        data == unwrapData(r.val)
        untouched == [map |-> marketHealthMap, ls |-> lsHealth, ret |-> Null]
    IN  IF S = <<>> \/ r.threw \/ ~IsObject(data) THEN untouched
        ELSE [map |-> Put(marketHealthMap, S,
                          mergeMarketHealth(Get(marketHealthMap, S), data, fast)[1]),
              ls |-> IF ~fast THEN writeFullHealthCache(lsHealth, S, data[1]) ELSE lsHealth,
              ret |-> data]

MaxHealthReqs == 3
MaxRefreshes == 2

MaxHist == 3

\* history kept for the properties: the last MaxHist results applied to symbol S
noteApplied(S, fast, data) ==
    LET old == IF S \in DOMAIN applied THEN applied[S] ELSE <<>>
        new == Append(old, [fast |-> fast, data |-> data])
    IN  Put(applied, S, IF Len(new) > MaxHist THEN Tail(new) ELSE new)

IdleTask == [stage |-> "idle", syms |-> <<>>, i |-> 0]

FreeReqId == CHOOSE n \in 1..MaxHealthReqs : \A q \in healthReqs : q.id # n

NewReq(id, sym, fast, awaited) == [id |-> id, sym |-> sym, fast |-> fast, awaited |-> awaited]

\* a refresh that sends the first FULL request together with the first FAST one
refreshSelectedHealthNow_fullAtOnce ==
    /\ selectedSyms # <<>>
    /\ ~healthRefreshBusy
    /\ Cardinality(healthReqs) < MaxHealthReqs
    /\ refreshes < MaxRefreshes
    /\ refreshes' = refreshes + 1
    /\ healthRefreshBusy' = TRUE
    /\ healthTask' = [stage |-> "fast", syms |-> selectedSyms, i |-> 1]
    /\ healthReqs' = healthReqs \cup {NewReq(FreeReqId, selectedSyms[1], TRUE, TRUE),
                                    NewReq(FreeReqId, selectedSyms[1], FALSE, FALSE)}
    /\ ev' = [op |-> "refreshHealth"]
    /\ UNCHANGED <<marketHealthMap, lsHealth, selVars, wlVars, dexVars, now, extVars, ordVars, err, lsVars, applied>>

\* click on the health refresh button: up to the first await
refreshSelectedHealthNow ==
    /\ selectedSyms # <<>>
    /\ ~healthRefreshBusy
    /\ Cardinality(healthReqs) < MaxHealthReqs
    /\ refreshes < MaxRefreshes
    /\ refreshes' = refreshes + 1
    /\ healthRefreshBusy' = TRUE
    /\ healthTask' = [stage |-> "fast", syms |-> selectedSyms, i |-> 1]
    /\ healthReqs' = healthReqs \cup {NewReq(FreeReqId, selectedSyms[1], TRUE, TRUE)}
    /\ ev' = [op |-> "refreshHealth"]
    /\ UNCHANGED <<marketHealthMap, lsHealth, selVars, wlVars, dexVars, now, extVars, ordVars, err, lsVars, applied>>

\* a health request completes with resp; when it is the one the refresh call
\* awaits, the call resumes: next FAST, or both timers after the last one
healthResponse(q, resp) ==
    LET out == fetchMarketHealth(q.sym, q.fast, resp)
        rest == healthReqs \ {q}
        more == healthTask.i < Len(healthTask.syms)
    IN  /\ q \in healthReqs
        /\ marketHealthMap' = out.map
        /\ lsHealth' = out.ls
        /\ IF ~q.awaited
           THEN /\ healthReqs' = rest
                /\ UNCHANGED healthTask
           ELSE IF more
           THEN /\ healthReqs' =
                      rest \cup {NewReq(q.id, healthTask.syms[healthTask.i + 1], TRUE, TRUE)}
                /\ healthTask' = [healthTask EXCEPT !.i = @ + 1]
           ELSE /\ healthReqs' = rest
                /\ healthTask' = [healthTask EXCEPT !.stage = "t50"]
        /\ ev' = [op |-> "health", sym |-> normalizeSymbol(q.sym), fast |-> q.fast,
                  resp |-> resp, ret |-> out.ret,
                  before |-> Get(marketHealthMap, normalizeSymbol(q.sym)),
                  lsBefore |-> Get(lsHealth, normalizeSymbol(q.sym))]
        /\ applied' = IF out.ret = Null THEN applied
                      ELSE noteApplied(normalizeSymbol(q.sym), q.fast, out.ret[1])
        /\ UNCHANGED <<healthRefreshBusy, selVars, wlVars, dexVars, now, extVars, ordVars, err, lsVars, refreshes>>

RECURSIVE IssueFull(_, _)
IssueFull(reqs, syms) ==
    IF syms = <<>> THEN reqs
    ELSE LET id == CHOOSE n \in 1..MaxHealthReqs : \A q \in reqs : q.id # n
         IN  IssueFull(reqs \cup {NewReq(id, Head(syms), FALSE, FALSE)}, Tail(syms))

\* the 50 ms timer of refreshSelectedHealthNow: FULL for every captured symbol
healthFullTimer ==
    /\ healthTask.stage = "t50"
    /\ Cardinality(healthReqs) + Len(healthTask.syms) <= MaxHealthReqs
    /\ healthReqs' = IssueFull(healthReqs, healthTask.syms)
    /\ healthTask' = [healthTask EXCEPT !.stage = "t600"]
    /\ ev' = [op |-> "healthFullTimer"]
    /\ UNCHANGED <<marketHealthMap, lsHealth, healthRefreshBusy, selVars, wlVars, dexVars,
                   now, extVars, ordVars, err, lsVars, applied, refreshes>>

\* the 600 ms timer of refreshSelectedHealthNow
healthBusyTimer ==
    /\ healthTask.stage = "t600"
    /\ healthRefreshBusy' = FALSE
    /\ healthTask' = IdleTask
    /\ ev' = [op |-> "healthBusyTimer"]
    /\ UNCHANGED <<marketHealthMap, lsHealth, healthReqs, selVars, wlVars, dexVars, now, extVars, ordVars, err, lsVars,
                   applied, refreshes>>

-----------------------------------------------------------------------------
(* Inputs of the model *)

T_BTC == <<"B","T","C">>
T_ETH == <<"E","T","H">>
T_eth == <<"e","t","h">>
T_ZZZ == <<"Z","Z","Z">>
T_dexA == <<"p","o","l","y","g","o","n","_","w","e","t","h","_","a">>
T_dexB == <<"p","o","l","y","g","o","n","_","t","b","p","_","_","b">>

\* DEFAULT_WATCHLIST has five majors; the model keeps the first two
DEFAULT_WATCHLIST == <<T_BTC, T_ETH>>

R_vol == <<"v","o","l"," ","u","p">>
R_30d == <<"t","r","e","n","d","3","0","d">>
R_24h == <<"2","4","h"," ","u","p">>
R_24H == <<"(","2","4","H",")">>
R_t24h == <<"t","r","e","n","d","2","4","h">>

LongReasons == [i \in 1..ReasonsCap |-> R_30d]

H_fast1 == [score |-> Some(80), status |-> Some("Healthy"), reasons |-> Some(<<R_vol>>)]
H_full1 == [score |-> Some(65), status |-> Some("Stable"), reasons |-> Some(<<R_30d>>),
            metrics |-> Some([trend30d |-> Some(-5), trend24h |-> Some(1)])]
H_fast2 == [score |-> Some(90), reasons |-> Some(<<R_t24h, R_24h, R_24H>>)]
H_fast3 == [score |-> Some(70), metrics |-> Some([trend24h |-> Some(2), trend30d |-> Null])]
H_fast4 == [score |-> Some(50), metrics |-> Some([trend180d |-> Some(3)])]
H_full2 == [score |-> Some(40), metrics |-> Some(EmptyObj)]
H_full3 == [reasons |-> Some(LongReasons), metrics |-> Some([drawdown180d |-> Some(-9)])]

HealthObjects == {H_fast1, H_full1, H_fast2, H_fast3, H_fast4, H_full2, H_full3}

\* every answer the backend may give to a health request
HealthResponses ==
    HttpFailures
        \cup {HttpJson(TRUE, o) : o \in HealthObjects}
        \cup {HttpJson(TRUE, [status |-> Some("ok"), data |-> Some(H_full1)]),
              HttpJson(FALSE, [error |-> Some(RawText)])}

-----------------------------------------------------------------------------
(* Forms, grid session, sign-in: the state after mount *)

\* DEFAULT_SYMBOL_MAP restricted to the symbols of DEFAULT_WATCHLIST
DEFAULT_SYMBOL_MAP ==
    [S \in {DEFAULT_WATCHLIST[i] : i \in 1..Len(DEFAULT_WATCHLIST)} |-> [mode |-> "market"]]

IdleAct == [op |-> "idle"]

\* the forms are empty and no grid action runs
FormsEmpty ==
    /\ symbolMap = DEFAULT_SYMBOL_MAP
    /\ addDexErr = <<>>
    /\ session = "IDLE"
    /\ autoRun = FALSE
    /\ gridMeta = Null
    /\ gridAct = IdleAct
    /\ manualPrice = <<>>
    /\ manualQty = <<>>

\* no wallet is connected and no listener is registered
NoWallet ==
    /\ walletAddress = <<>>
    /\ walletChainId = Null
    /\ walletConnector = ""
    /\ acctListeners = <<>>

\* the forms are empty, no grid action runs, nobody is signed in, no wallet is
\* connected, and nothing of a wallet or a sign-in is stored
InitForms ==
    /\ FormsEmpty
    /\ authToken = <<>>
    /\ lsToken = <<>>
    /\ NoWallet
    /\ lsWallet = Null

\* after mount: the mount effect has recorded the time as the last activity
InitExt ==
    /\ InitForms
    /\ lsLastActivity = StartTime

-----------------------------------------------------------------------------
(* Specification of the health cache alone.  The selection does not change: *)
(* the primary is the watchlist's first symbol and the user has cleared the *)
(* compare input, so one symbol is refreshed.  The requests of the mount    *)
(* are over: the first snapshot came back without rows, the initial         *)
(* refreshAll got no answer.                                                *)

key(item, pair) == item \o <<"|", "|">> \o pair

InitHealth ==
    /\ primaryItemId = T_BTC
    /\ pairOrContract = <<>>
    /\ compareItemId = <<>>
    /\ watchlist = DEFAULT_WATCHLIST
    /\ wlSnapshots = <<>>
    /\ wlCache = EmptyObj
    /\ wlErr = <<>>
    /\ wlBusy = FALSE
    /\ wlReqs = {}
    /\ marketHealthMap = EmptyObj
    /\ lsHealth = EmptyObj
    /\ healthRefreshBusy = FALSE
    /\ healthTask = IdleTask
    /\ healthReqs = {}
    /\ live = Null
    /\ healthScore = Null
    /\ compareHealthScore = Null
    /\ lastLiveByKey = EmptyObj
    /\ lastHealthByKey = EmptyObj
    /\ lastCompareHealthByKey = EmptyObj
    /\ lastPrimaryKey = key(primaryItemId, pairOrContract)
    /\ lastCompareKey = key(trim(compareItemId), trim(pairOrContract))
    /\ allReqs = {}
    /\ busy = FALSE
    /\ now = StartTime
    /\ applied = EmptyObj
    /\ refreshes = 0
    /\ gridOrders = <<>>
    /\ gridHiddenIds = {}
    /\ gridTimers = 0
    /\ ordersPollInFlight = FALSE
    /\ gridReqs = {}
    /\ err = <<>>
    /\ storageDown = FALSE
    /\ thrown = ""
    /\ mounted = TRUE
    /\ InitExt
    /\ ev = [op |-> "init"]

NextHealth ==
    \/ refreshSelectedHealthNow
    \/ \E q \in healthReqs : \E resp \in HealthResponses : healthResponse(q, resp)
    \/ healthFullTimer
    \/ healthBusyTimer

SpecHealth == InitHealth /\ [][NextHealth]_vars

-----------------------------------------------------------------------------
(* Properties of the health merge and fetch (checked under SpecHealth) *)

\* the last step applied a health result (the response carried an object)
HealthApplied == ev.op = "health" /\ ev.ret # Null
FastApplied == HealthApplied /\ ev.fast
FullApplied == HealthApplied /\ ~ev.fast

CurRecord(S) == Get(marketHealthMap, S)
Metrics(x) == ObjOrEmpty(x, "metrics")
ValOf(x, f) == IF HasVal(x, f) THEN x[f] ELSE Null

\* the last step merged a FAST result without multi-day metrics into a
\* stored record that has at least one
PreserveCase ==
    /\ FastApplied
    /\ ev.before # Null
    /\ HasMultiDay(Metrics(ev.before[1]))
    /\ ~HasMultiDay(Metrics(ev.ret[1]))

\* C1: a FULL result X makes the in-memory record exactly X, whatever was
\* stored; of two FULL results applied one after the other the later one is
\* the stored record.
C1_FullReplaces ==
    /\ FullApplied => CurRecord(ev.sym) = ev.ret
    /\ \A S \in DOMAIN applied :
           LET h == applied[S]
           IN  (Len(h) >= 2 /\ ~h[Len(h)].fast /\ ~h[Len(h) - 1].fast /\ FullApplied
                    /\ ev.sym = S)
                   => marketHealthMap[S] = h[Len(h)].data

C1_Witness ==
    /\ FullApplied
    /\ ev.before # Null
    /\ ev.before # ev.ret
    /\ LET h == applied[ev.sym]
       IN  Len(h) >= 2 /\ ~h[Len(h) - 1].fast /\ h[Len(h) - 1].data # h[Len(h)].data

\* C2 (as claimed): a FAST result with no trend30d merged into a record with a
\* non-null trend30d leaves trend30d and score as they were.
C2_FastKeepsTrend30dAndScore ==
    (/\ FastApplied
     /\ ev.before # Null
     /\ HasVal(Metrics(ev.before[1]), "trend30d")
     /\ ~HasVal(Metrics(ev.ret[1]), "trend30d"))
        => /\ ValOf(Metrics(marketHealthMap[ev.sym]), "trend30d")
                  = Metrics(ev.before[1])["trend30d"]
           /\ Get(marketHealthMap[ev.sym], "score") = Get(ev.before[1], "score")

\* C3: in the preserving FAST merge the reasons are the stored non-24h reasons,
\* then the incoming 24h reasons, cut to 12; and fast{80,[r1]} -> full{65,[r2],
\* trend30d -5} -> fast{90,[.., r3 24h ..]} ends with score 65, trend30d -5 and
\* reasons with r2 and r3 but not r1.
C3_Reasons ==
    /\ PreserveCase =>
           marketHealthMap[ev.sym]["reasons"] =
               Some(Slice0(SelectSeq(ArrOrEmpty(ev.before[1], "reasons"), NotMentions24h)
                               \o SelectSeq(ArrOrEmpty(ev.ret[1], "reasons"), Mentions24h),
                           12))
    /\ \A S \in DOMAIN applied :
           (applied[S] = << [fast |-> TRUE, data |-> H_fast1],
                            [fast |-> FALSE, data |-> H_full1],
                            [fast |-> TRUE, data |-> H_fast2] >>
                /\ HealthApplied /\ ev.sym = S)
               => LET r == marketHealthMap[S]
                      rs == SeqToSet(r["reasons"][1])
                  IN  /\ r["score"] = Some(65)
                      /\ r["metrics"][1]["trend30d"] = Some(-5)
                      /\ R_30d \in rs /\ R_24h \in rs /\ R_vol \notin rs

\* the three-step scenario happened, and a merge had more than 12 candidates
C3_Witness ==
    /\ PreserveCase
    /\ applied[ev.sym] = << [fast |-> TRUE, data |-> H_fast1],
                            [fast |-> FALSE, data |-> H_full1],
                            [fast |-> TRUE, data |-> H_fast2] >>

C3_WitnessCap ==
    /\ PreserveCase
    /\ Len(SelectSeq(ArrOrEmpty(ev.before[1], "reasons"), NotMentions24h))
           + Len(SelectSeq(ArrOrEmpty(ev.ret[1], "reasons"), Mentions24h)) > 12

\* C4 (as claimed): in the preserving FAST merge every stored multi-day metric
\* is kept and every non-multi-day metric the incoming record supplies takes
\* the incoming value.
C4_IncomingShortMetricsWin ==
    PreserveCase =>
        LET m == Metrics(marketHealthMap[ev.sym])
            pm == Metrics(ev.before[1])
            im == Metrics(ev.ret[1])
        IN  /\ \A f \in MultiDayFields \cap DOMAIN pm : f \in DOMAIN m /\ m[f] = pm[f]
            /\ \A f \in DOMAIN im \ MultiDayFields : f \in DOMAIN m /\ m[f] = im[f]

\* C5 (as claimed): a health fetch ending in a transport error, a non-2xx
\* response, a body that is not JSON, or a timeout returns null and leaves the
\* in-memory record and the persisted record of the symbol as they were.
FailedResponse(resp) ==
    \/ resp.kind \in {"neterr", "timeout"}
    \/ resp.kind = "http" /\ ~resp.ok
    \/ resp.kind = "http" /\ resp.body = "text"

C5_FailedFetchLeavesCache ==
    (ev.op = "health" /\ FailedResponse(ev.resp))
        => /\ ev.ret = Null
           /\ CurRecord(ev.sym) = ev.before
           /\ Get(lsHealth, ev.sym) = ev.lsBefore

\* the last two results applied to S are one FAST result without multi-day
\* metrics and one FULL result, in either order; F and U name them
PairApplied(S) ==
    /\ HealthApplied /\ ev.sym = S
    /\ S \in DOMAIN applied
    /\ Len(applied[S]) >= 2
    /\ LET a == applied[S][Len(applied[S]) - 1]
           b == applied[S][Len(applied[S])]
       IN  /\ a.fast # b.fast
           /\ ~HasMultiDay(Metrics(IF a.fast THEN a.data ELSE b.data))

PairFull(S) ==
    LET a == applied[S][Len(applied[S]) - 1]
        b == applied[S][Len(applied[S])]
    IN  IF a.fast THEN b.data ELSE a.data

FullCameFirst(S) == ~applied[S][Len(applied[S]) - 1].fast

MultiDayOf(x) == [f \in MultiDayFields |-> ValOf(Metrics(x), f)]

FullWon(S) ==
    /\ Get(marketHealthMap[S], "score") = Get(PairFull(S), "score")
    /\ MultiDayOf(marketHealthMap[S]) = MultiDayOf(PairFull(S))

\* C6 (as claimed): after one FAST (no multi-day metrics) and one FULL result
\* for the same symbol, in either order, the record has the FULL result's
\* score and multi-day metrics.
C6_FullWinsEitherOrder == \A S \in DOMAIN applied : PairApplied(S) => FullWon(S)

\* C6 (amended): the same, for a FULL result that carries a score and at least
\* one non-null multi-day metric.
C6_FullWithMultiDayWins ==
    \A S \in DOMAIN applied :
        (PairApplied(S) /\ HasMultiDay(Metrics(PairFull(S))) /\ ScoreIsFinite(PairFull(S)))
            => FullWon(S)

\* FULL arrived first and the FAST result merged into it offered another score
C6_Witness ==
    \E S \in DOMAIN applied :
        /\ PairApplied(S)
        /\ HasMultiDay(Metrics(PairFull(S))) /\ ScoreIsFinite(PairFull(S))
        /\ FullCameFirst(S)
        /\ "score" \in DOMAIN ev.ret[1]
        /\ ev.ret[1]["score"] # PairFull(S)["score"]

-----------------------------------------------------------------------------
(* Watchlist rows and the selection derived from them *)

\* the keys of wlMap: wlRows has one row for every watchlist entry
wlMapKeys(wl) == {normalizeSymbol(wl[i]) : i \in 1..Len(wl)} \ {<<>>}

\* isSym of the auto-sync effect: Boolean(wlMap.get(normalizeSymbol(x)))
isSym(wl, x) == normalizeSymbol(x) # <<>> /\ normalizeSymbol(x) \in wlMapKeys(wl)

isLikelySymbol(x) ==
    LET sym == normalizeSymbol(x)
    IN  sym # <<>> /\ Len(sym) <= 12 /\ \A i \in 1..Len(sym) : IsSymbolChar(sym[i])

symOf(wl, x) == IF normalizeSymbol(x) \in wlMapKeys(wl) THEN normalizeSymbol(x) ELSE <<>>
primarySym == symOf(watchlist, primaryItemId)
compareSym == symOf(watchlist, compareItemId)

dexKey(item, pair) == trim(item) \o <<"|", "|">> \o trim(pair)
primaryDexKey == dexKey(primaryItemId, pairOrContract)
compareDexKey == dexKey(compareItemId, pairOrContract)

effectiveLive == IF primarySym # <<>> THEN Get(wlCache, primarySym) ELSE live
effectiveHealth == IF primarySym # <<>> THEN Get(marketHealthMap, primarySymRaw) ELSE healthScore
effectiveCompareHealth ==
    IF compareSym # <<>> THEN Get(marketHealthMap, compareSymRaw) ELSE compareHealthScore

\* the auto-sync effect: the value it leaves in each input
autoSyncPrimary_keep(wl, p) == p

autoSyncPrimary(wl, p) ==
    LET items == FilterSeq([i \in 1..Len(wl) |-> normalizeSymbol(wl[i])], NonEmpty)
    IN  IF items = <<>> \/ isSym(wl, p) THEN p ELSE items[1]

autoSyncCompare(wl, c) ==
    LET items == FilterSeq([i \in 1..Len(wl) |-> normalizeSymbol(wl[i])], NonEmpty)
    IN  IF items = <<>> \/ isSym(wl, c) THEN c
        ELSE items[IF Len(items) >= 2 THEN 2 ELSE 1]

selectedSymsOf(p, c) == FilterSeq(<<normalizeSymbol(p), normalizeSymbol(c)>>, NonEmpty)

\* One render with the inputs p1, q1, c1 and the watchlist wl1 left by a
\* handler, and the effects that follow it: auto-sync (when the watchlist, the
\* rows or the symbol map changed), the persist effects of the inputs (their
\* setItem is not guarded), the hydrate effect (when a normalized input
\* changed) and the two reset effects.
Render(p1, q1, c1, wl1, sync) ==
    LET p2 == IF sync THEN autoSyncPrimary(wl1, p1) ELSE p1
        c2 == IF sync THEN autoSyncCompare(wl1, c1) ELSE c1
        pk == key(p2, q1)
        ck == dexKey(c2, q1)
    IN  /\ primaryItemId' = p2
        /\ pairOrContract' = q1
        /\ compareItemId' = c2
        /\ watchlist' = wl1
        /\ marketHealthMap' =
               IF /\ normalizeSymbol(p2) # primarySymRaw \/ normalizeSymbol(c2) # compareSymRaw
                  /\ selectedSymsOf(p2, c2) # <<>>
               THEN hydrateFrom(marketHealthMap, selectedSymsOf(p2, c2))
               ELSE marketHealthMap
        /\ lastPrimaryKey' = pk
        /\ live' = IF pk # lastPrimaryKey /\ ~isLikelySymbol(p2) THEN Null ELSE live
        /\ healthScore' = IF pk # lastPrimaryKey /\ ~isLikelySymbol(p2) THEN Null ELSE healthScore
        /\ thrown' = IF storageDown /\ thrown = "" /\ <<p2, q1, c2>> # selVars
                     THEN "persist" ELSE thrown
        /\ lastCompareKey' = ck
        /\ compareHealthScore' =
               IF ck # lastCompareKey /\ c2 # <<>> /\ ~isLikelySymbol(c2)
               THEN Null ELSE compareHealthScore

selBefore == [p |-> primaryItemId, q |-> pairOrContract, c |-> compareItemId]

-----------------------------------------------------------------------------
(* User edits of the resolver inputs *)

setPrimaryItemId(t) ==
    /\ t # primaryItemId
    /\ Render(t, pairOrContract, compareItemId, watchlist, FALSE)
    /\ ev' = [op |-> "setPrimary", was |-> selBefore]
    /\ UNCHANGED <<wlSnapshots, wlCache, wlErr, wlBusy, wlReqs, lsHealth, healthRefreshBusy,
                   healthTask, healthReqs, lastLiveByKey, lastHealthByKey,
                   lastCompareHealthByKey, allReqs, busy, now, extVars, ordVars, err, storageDown, mounted, applied, refreshes>>

setCompareItemId(t) ==
    /\ t # compareItemId
    /\ Render(primaryItemId, pairOrContract, t, watchlist, FALSE)
    /\ ev' = [op |-> "setCompare", was |-> selBefore]
    /\ UNCHANGED <<wlSnapshots, wlCache, wlErr, wlBusy, wlReqs, lsHealth, healthRefreshBusy,
                   healthTask, healthReqs, lastLiveByKey, lastHealthByKey,
                   lastCompareHealthByKey, allReqs, busy, now, extVars, ordVars, err, storageDown, mounted, applied, refreshes>>

\* the pair / contract input exists in development builds only
setPairOrContract(t) ==
    /\ t # pairOrContract
    /\ Render(primaryItemId, t, compareItemId, watchlist, FALSE)
    /\ ev' = [op |-> "setPair", was |-> selBefore]
    /\ UNCHANGED <<wlSnapshots, wlCache, wlErr, wlBusy, wlReqs, lsHealth, healthRefreshBusy,
                   healthTask, healthReqs, lastLiveByKey, lastHealthByKey,
                   lastCompareHealthByKey, allReqs, busy, now, extVars, ordVars, err, storageDown, mounted, applied, refreshes>>

-----------------------------------------------------------------------------
(* Watchlist: membership and snapshot refresh *)

MaxWlReqs == 1

NewWlReq(items, forAll) ==
    [id |-> CHOOSE n \in 1..MaxWlReqs : \A r \in wlReqs : r.id # n,
     items |-> items, forAll |-> forAll]

SameSymbol(a, b) == normalizeSymbol(a) = normalizeSymbol(b)

\* the remove buttons are disabled while wlBusy
removeFromWatchlist(sym) ==
    LET NotIt(x) == ~SameSymbol(x, sym)
    IN  /\ ~wlBusy
        /\ \E i \in 1..Len(watchlist) : watchlist[i] = sym
        /\ Render(primaryItemId, pairOrContract, compareItemId, FilterSeq(watchlist, NotIt), TRUE)
        /\ ev' = [op |-> "remove", sym |-> normalizeSymbol(sym), was |-> selBefore]
        /\ UNCHANGED <<wlSnapshots, wlCache, wlErr, wlBusy, wlReqs, lsHealth, healthRefreshBusy,
                       healthTask, healthReqs, lastLiveByKey, lastHealthByKey,
                       lastCompareHealthByKey, allReqs, busy, now, extVars, ordVars, err, storageDown, mounted, applied, refreshes>>

\* addResolvedToWatchlist(coin): the symbol map changes too, which restarts the
\* periodic refresh effect, and that calls refreshWatchlist() at once
addResolvedToWatchlist(coinSymbol) ==
    LET sym == normalizeSymbol(coinSymbol)
        wl1 == IF \E i \in 1..Len(watchlist) : watchlist[i] = sym
               THEN watchlist ELSE <<sym>> \o watchlist
    IN  /\ sym # <<>>
        /\ Cardinality(wlReqs) < MaxWlReqs
        /\ Render(primaryItemId, pairOrContract, compareItemId, wl1, TRUE)
        /\ wlErr' = <<>>
        /\ wlBusy' = TRUE
        /\ wlReqs' = wlReqs \cup {NewWlReq(wl1, FALSE)}
        /\ symbolMap' = Put(symbolMap, sym, [mode |-> "market"])
        /\ ev' = [op |-> "add", sym |-> sym, was |-> selBefore]
        /\ UNCHANGED <<wlSnapshots, wlCache, lsHealth, healthRefreshBusy,
                       healthTask, healthReqs, lastLiveByKey, lastHealthByKey,
                       lastCompareHealthByKey, allReqs, busy, now, addDexErr, gridActVars,
                       authVars, ordVars, err, storageDown, mounted, applied, refreshes>>

\* refreshWatchlist() up to its await: the 120 s timer or the refresh button
refreshWatchlist ==
    /\ wlErr' = <<>>
    /\ IF watchlist = <<>>
       THEN /\ wlSnapshots' = <<>>
            /\ UNCHANGED <<wlBusy, wlReqs>>
       ELSE /\ Cardinality(wlReqs) < MaxWlReqs
            /\ wlBusy' = TRUE
            /\ wlReqs' = wlReqs \cup {NewWlReq(watchlist, FALSE)}
            /\ UNCHANGED wlSnapshots
    /\ ev' = [op |-> "refreshWatchlist"]
    /\ UNCHANGED <<selVars, watchlist, wlCache, healthVars, dexVars, now, extVars, ordVars, err, lsVars, applied, refreshes>>

\* mergeRow without the loop that keeps the former values: the row replaces
\* the fields it names, null or not
mergeRow_overwrite(cache, row) ==
    LET sym == normalizeSymbol(row["symbol"][1])
        prevRow == IF sym \in DOMAIN cache THEN cache[sym] ELSE EmptyObj
    IN  IF sym = <<>> THEN cache
        ELSE Put(cache, sym, Put(Spread(prevRow, row), "symbol", Some(sym)))

\* one row of a snapshot answer merged into the cache (lines 1138-1147)
mergeRow(cache, row) ==
    LET sym == normalizeSymbol(row["symbol"][1])
        prevRow == IF sym \in DOMAIN cache THEN cache[sym] ELSE EmptyObj
        m0 == Put(Spread(prevRow, row), "symbol", Some(sym))
        Kept(k) == ~HasVal(row, k) /\ HasVal(prevRow, k)
        m1 == [k \in DOMAIN m0 |->
                  IF k \in {"price", "change24h", "volume24h", "liquidity", "source", "mode"}
                     /\ Kept(k)
                  THEN prevRow[k] ELSE m0[k]]
    IN  IF sym = <<>> THEN cache ELSE Put(cache, sym, m1)

RECURSIVE mergeRows(_, _)
mergeRows(cache, rows) ==
    IF rows = <<>> THEN cache ELSE mergeRows(mergeRow(cache, Head(rows)), Tail(rows))

\* r?.results || []
resultsOf(r) == IF IsObject(r) /\ HasVal(r[1], "results") THEN r[1]["results"][1] ELSE <<>>

ErrText == <<"e","r","r">>

\* a snapshot request completes with resp
wlResponse(rq, resp) ==
    LET r == jget(resp)
        results == resultsOf(r.val)
    IN  /\ rq \in wlReqs
        /\ wlReqs' = wlReqs \ {rq}
        /\ wlBusy' = FALSE
        /\ busy' = IF rq.forAll THEN FALSE ELSE busy
        /\ IF r.threw
           THEN /\ wlErr' = ErrText
                /\ UNCHANGED <<wlSnapshots, wlCache, selVars, watchlist, marketHealthMap, live,
                               healthScore, compareHealthScore, lastPrimaryKey, lastCompareKey,
                               thrown>>
           ELSE /\ wlSnapshots' = results
                /\ wlCache' = mergeRows(wlCache, results)
                /\ Render(primaryItemId, pairOrContract, compareItemId, watchlist, TRUE)
                /\ UNCHANGED wlErr
        /\ ev' = [op |-> "wlResponse", ok |-> ~r.threw, was |-> selBefore]
        /\ UNCHANGED <<lsHealth, healthRefreshBusy, healthTask, healthReqs, lastLiveByKey,
                       lastHealthByKey, lastCompareHealthByKey, allReqs, now, extVars, ordVars, err, storageDown, mounted, applied,
                       refreshes>>

-----------------------------------------------------------------------------
(* refreshAll: the main refresh, DEX mode or watchlist mode *)

\* what the backend answers about item and pair; the answer names its subject
DexData(item, pair) == [of |-> Some(dexKey(item, pair)), score |-> Some(50)]

\* the values a refreshAll call captured from the render it was created in
NewAllCall ==
    [item |-> primaryItemId, pair |-> pairOrContract, K |-> primaryDexKey,
     cItem |-> compareItemId, cSym |-> compareSym, cK |-> compareDexKey,
     stage |-> "primary"]

\* click on Refresh All (disabled while busy), up to the first await
refreshAll ==
    /\ ~busy
    /\ err' = <<>>
    /\ busy' = TRUE
    /\ IF primarySym # <<>>
       THEN /\ Cardinality(wlReqs) < MaxWlReqs
            /\ wlErr' = <<>>
            /\ wlBusy' = TRUE
            /\ wlReqs' = wlReqs \cup {NewWlReq(watchlist, TRUE)}
            /\ UNCHANGED allReqs
       ELSE /\ allReqs = {}
            /\ allReqs' = {NewAllCall}
            /\ UNCHANGED <<wlErr, wlBusy, wlReqs>>
    /\ ev' = [op |-> "refreshAll"]
    /\ UNCHANGED <<selVars, watchlist, wlSnapshots, wlCache, healthVars, live, healthScore,
                   compareHealthScore, lastLiveByKey, lastHealthByKey, lastCompareHealthByKey,
                   lastPrimaryKey, lastCompareKey, now, extVars, ordVars, lsVars, applied, refreshes>>

\* value set after a settled request: the answer, else the last good one of
\* the key, else nothing is set
settled(cur, ok, data, byKey, K) ==
    IF ok THEN Some(data) ELSE IF K \in DOMAIN byKey THEN Some(byKey[K]) ELSE cur

remember(ok, data, byKey, K) == IF ok THEN Put(byKey, K, data) ELSE byKey

\* both primary requests of a call settled (lines 1631-1648), then the compare
\* request is sent or the call ends
allPrimaryDone(call, hOk, lOk) ==
    LET data == DexData(call.item, call.pair)
        goCompare == call.cItem # <<>> /\ call.cSym = <<>>
    IN  /\ call \in allReqs
        /\ call.stage = "primary"
        /\ healthScore' = settled(healthScore, hOk, data, lastHealthByKey, call.K)
        /\ lastHealthByKey' = remember(hOk, data, lastHealthByKey, call.K)
        /\ live' = settled(live, lOk, data, lastLiveByKey, call.K)
        /\ lastLiveByKey' = remember(lOk, data, lastLiveByKey, call.K)
        /\ IF goCompare
           THEN /\ allReqs' = (allReqs \ {call}) \cup {[call EXCEPT !.stage = "compare"]}
                /\ UNCHANGED <<compareHealthScore, busy>>
           ELSE /\ allReqs' = allReqs \ {call}
                /\ compareHealthScore' = Null
                /\ busy' = FALSE
        /\ ev' = [op |-> "allPrimaryDone", K |-> call.K, hOk |-> hOk, lOk |-> lOk]
        /\ UNCHANGED <<selVars, wlVars, healthVars, lastCompareHealthByKey, lastPrimaryKey,
                       lastCompareKey, now, extVars, ordVars, err, lsVars, applied, refreshes>>

\* the compare request of a call settled (lines 1658-1666)
allCompareDone(call, chOk) ==
    LET data == DexData(call.cItem, call.pair)
    IN  /\ call \in allReqs
        /\ call.stage = "compare"
        /\ compareHealthScore' =
               settled(compareHealthScore, chOk, data, lastCompareHealthByKey, call.cK)
        /\ lastCompareHealthByKey' = remember(chOk, data, lastCompareHealthByKey, call.cK)
        /\ allReqs' = allReqs \ {call}
        /\ busy' = FALSE
        /\ ev' = [op |-> "allCompareDone", K |-> call.cK, hOk |-> chOk]
        /\ UNCHANGED <<selVars, wlVars, healthVars, live, healthScore, lastLiveByKey,
                       lastHealthByKey, lastPrimaryKey, lastCompareKey, now, extVars, ordVars, err, lsVars, applied,
                       refreshes>>

-----------------------------------------------------------------------------
(* The application after mount, and the inputs of the selection model *)

\* the resolver's default primary, "polygon_weth_usdc_quicksw"
T_default == <<"p","o","l","y","g","o","n","_","w","e","t","h","_","u","s","d","c","_",
               "q","u","i","c","k","s","w">>

\* a snapshot row of the backend for a watchlist item
Row(sym, price) == [symbol |-> Some(sym), price |-> price, source |-> Some("cg")]

RECURSIVE Rows(_, _)
Rows(items, price) ==
    IF items = <<>> THEN <<>> ELSE <<Row(Head(items), price)>> \o Rows(Tail(items), price)

\* the answers to a snapshot request for items: every item priced, no rows at
\* all, or a failure
WlResponses(items) ==
    {HttpJson(TRUE, [results |-> Some(Rows(items, Some(100)))]),
     HttpJson(TRUE, EmptyObj),
     [kind |-> "neterr"]}

PrimaryEdits == {T_ZZZ, T_dexA}
CompareEdits == {T_eth, T_dexB}
AddedCoins == {T_BTC}
\* the pair / contract half of the key: empty, or an address
T_pair == <<"0","x","a">>
PairEdits == {<<>>, T_pair}

\* First visit, after the mount effects: auto-sync replaced the default
\* primary and the empty compare by the first two watchlist symbols, the
\* initial refreshAll (created by the first render) and the first watchlist
\* refresh are waiting for their answers.
Init ==
    /\ primaryItemId = DEFAULT_WATCHLIST[1]
    /\ pairOrContract = <<>>
    /\ compareItemId = DEFAULT_WATCHLIST[2]
    /\ watchlist = DEFAULT_WATCHLIST
    /\ wlSnapshots = <<>>
    /\ wlCache = EmptyObj
    /\ wlErr = <<>>
    /\ wlBusy = TRUE
    /\ wlReqs = {[id |-> 1, items |-> DEFAULT_WATCHLIST, forAll |-> FALSE]}
    /\ marketHealthMap = EmptyObj
    /\ lsHealth = EmptyObj
    /\ healthRefreshBusy = FALSE
    /\ healthTask = IdleTask
    /\ healthReqs = {}
    /\ live = Null
    /\ healthScore = Null
    /\ compareHealthScore = Null
    /\ lastLiveByKey = EmptyObj
    /\ lastHealthByKey = EmptyObj
    /\ lastCompareHealthByKey = EmptyObj
    /\ lastPrimaryKey = key(DEFAULT_WATCHLIST[1], <<>>)
    /\ lastCompareKey = dexKey(DEFAULT_WATCHLIST[2], <<>>)
    /\ allReqs = {[item |-> T_default, pair |-> <<>>, K |-> dexKey(T_default, <<>>),
                   cItem |-> <<>>, cSym |-> <<>>, cK |-> dexKey(<<>>, <<>>),
                   stage |-> "primary"]}
    /\ busy = TRUE
    /\ now = StartTime
    /\ applied = EmptyObj
    /\ refreshes = 0
    /\ gridOrders = <<>>
    /\ gridHiddenIds = {}
    /\ gridTimers = 0
    /\ ordersPollInFlight = FALSE
    /\ gridReqs = {[id |-> 1, src |-> "mount"]}
    /\ err = <<>>
    /\ storageDown = FALSE
    /\ thrown = ""
    /\ mounted = TRUE
    /\ InitExt
    /\ ev = [op |-> "init"]

\* Selection and watchlist: the user edits the inputs and the watchlist, the
\* snapshot requests are answered.  The calls of refreshAll are left out: in
\* watchlist mode a call sends the request that refreshWatchlist sends, in DEX
\* mode it writes neither the inputs nor the watchlist.
NextSel ==
    \/ \E t \in PrimaryEdits : setPrimaryItemId(t)
    \/ \E t \in CompareEdits : setCompareItemId(t)
    \/ \E i \in 1..Len(watchlist) : removeFromWatchlist(watchlist[i])
    \/ \E c \in AddedCoins : addResolvedToWatchlist(c)
    \/ refreshWatchlist
    \/ \E rq \in wlReqs : \E resp \in WlResponses(rq.items) : wlResponse(rq, resp)

SpecSel == Init /\ [][NextSel]_vars

\* DEX mode: the user edits the inputs and refreshes, the calls of refreshAll
\* run to their end.  The watchlist and its snapshots stay as they are.
NextDex ==
    \/ \E t \in PrimaryEdits : setPrimaryItemId(t)
    \/ \E t \in CompareEdits : setCompareItemId(t)
    \/ refreshAll
    \/ \E call \in allReqs : \E hOk, lOk \in BOOLEAN : allPrimaryDone(call, hOk, lOk)
    \/ \E call \in allReqs : \E chOk \in BOOLEAN : allCompareDone(call, chOk)

SpecDex == Init /\ [][NextDex]_vars

\* A returning visitor, once the requests of the mount are answered: the
\* stored inputs are the first two watchlist symbols, localStorage holds a
\* recent FULL health record of the first one, which the market health effect
\* loaded into the map, and the snapshot rows are cached.
InitReturning ==
    /\ storageDown = FALSE
    /\ primaryItemId = DEFAULT_WATCHLIST[1]
    /\ pairOrContract = <<>>
    /\ compareItemId = DEFAULT_WATCHLIST[2]
    /\ watchlist = DEFAULT_WATCHLIST
    /\ wlSnapshots = Rows(DEFAULT_WATCHLIST, Some(100))
    /\ wlCache = mergeRows(EmptyObj, Rows(DEFAULT_WATCHLIST, Some(100)))
    /\ wlErr = <<>>
    /\ wlBusy = FALSE
    /\ wlReqs = {}
    /\ now = StartTime
    /\ lsHealth = writeFullHealthCache(EmptyObj, DEFAULT_WATCHLIST[1], H_full1)
    /\ marketHealthMap = hydrateFrom(EmptyObj, DEFAULT_WATCHLIST)
    /\ healthRefreshBusy = FALSE
    /\ healthTask = IdleTask
    /\ healthReqs = {}
    /\ live = Null
    /\ healthScore = Null
    /\ compareHealthScore = Null
    /\ lastLiveByKey = EmptyObj
    /\ lastHealthByKey = EmptyObj
    /\ lastCompareHealthByKey = EmptyObj
    /\ lastPrimaryKey = key(DEFAULT_WATCHLIST[1], <<>>)
    /\ lastCompareKey = dexKey(DEFAULT_WATCHLIST[2], <<>>)
    /\ allReqs = {}
    /\ busy = FALSE
    /\ applied = EmptyObj
    /\ refreshes = 0
    /\ gridOrders = <<>>
    /\ gridHiddenIds = {}
    /\ gridTimers = 0
    /\ ordersPollInFlight = FALSE
    /\ gridReqs = {}
    /\ err = <<>>
    /\ thrown = ""
    /\ mounted = TRUE
    /\ InitExt
    /\ ev = [op |-> "init"]

\* Eviction: the returning visitor edits the inputs, the pair / contract
\* included, and the watchlist
NextEvict ==
    \/ NextSel
    \/ \E t \in PairEdits : setPairOrContract(t)

SpecEvict == InitReturning /\ [][NextEvict]_vars

\* The whole application
Next ==
    \/ NextHealth
    \/ NextEvict
    \/ NextDex

Spec == Init /\ [][Next]_vars

-----------------------------------------------------------------------------
(* Properties of the watchlist, the selection and the DEX refresh *)

\* C7: when an identity S is removed from the watchlist, its in-memory health
\* record and its snapshot cache entry are deleted at once.
C7_RemovalPurges ==
    ev.op = "remove" =>
        /\ ev.sym \notin DOMAIN marketHealthMap
        /\ ev.sym \notin DOMAIN wlCache

WatchlistEvent ==
    \/ ev.op \in {"remove", "add"}
    \/ ev.op = "wlResponse" /\ ev.ok

C9_ResetOnKeyChange ==
    "was" \in DOMAIN ev =>
        /\ (/\ key(primaryItemId, pairOrContract) # key(ev.was.p, ev.was.q)
            /\ primarySym = <<>>)
               => (live = Null /\ healthScore = Null)
        /\ (/\ key(compareItemId, pairOrContract) # key(ev.was.c, ev.was.q)
            /\ compareSym = <<>>)
               => compareHealthScore = Null

\* the subject of a held DEX value
SubjectOf(v) == v[1]["of"][1]

\* C10: in DEX mode a non-null primary live / health value belongs to the
\* current primary identity key: an answer requested under a key K that
\* arrives after the key became K' is not stored as the current value, and
\* nothing requested under K is remembered under K'.
C10_ValueBelongsToKey ==
    /\ primarySym = <<>> =>
           /\ live # Null => SubjectOf(live) = primaryDexKey
           /\ healthScore # Null => SubjectOf(healthScore) = primaryDexKey
    /\ \A K \in DOMAIN lastLiveByKey : lastLiveByKey[K]["of"][1] = K
    /\ \A K \in DOMAIN lastHealthByKey : lastHealthByKey[K]["of"][1] = K

-----------------------------------------------------------------------------
(* Health refreshes while the selection changes *)

\* the answers to a health request kept here: one usable record, one failure
HydrateHealthResponses == {HttpJson(TRUE, H_fast1), [kind |-> "neterr"]}

\* The returning visitor refreshes the health of the selection and edits the
\* compare input; the primary and the watchlist stay as they are.
NextHydrate ==
    \/ refreshSelectedHealthNow
    \/ \E q \in healthReqs : \E resp \in HydrateHealthResponses : healthResponse(q, resp)
    \/ healthFullTimer
    \/ healthBusyTimer
    \/ \E t \in CompareEdits : setCompareItemId(t)

SpecHydrate == InitReturning /\ [][NextHydrate]_vars

\* a user edit of the primary or the compare input
SelectionEdit == ev'.op \in {"setPrimary", "setCompare"}

\* the input that the edit wrote now matches a watchlist entry
EditedToWatchlistSymbol ==
    \/ ev'.op = "setPrimary" /\ isSym(watchlist', primaryItemId')
    \/ ev'.op = "setCompare" /\ isSym(watchlist', compareItemId')

\* C11: changing the primary or the compare selection to an identity of the
\* watchlist leaves the in-memory health records of both selected identities
\* and the snapshot cache as they were.
C11_SelectionReusesCache ==
    [][(SelectionEdit /\ EditedToWatchlistSymbol) =>
          /\ wlCache' = wlCache
          /\ Get(marketHealthMap', primarySymRaw') = Get(marketHealthMap, primarySymRaw')
          /\ Get(marketHealthMap', compareSymRaw') = Get(marketHealthMap, compareSymRaw')]_vars

\* the last event changed the identity of the primary (compare) slot to a
\* valid symbol
PrimaryIdentityChanged ==
    /\ "was" \in DOMAIN ev
    /\ primarySymRaw # normalizeSymbol(ev.was.p)
    /\ validateSymbol(primarySymRaw) # <<>>

CompareIdentityChanged ==
    /\ "was" \in DOMAIN ev
    /\ compareSymRaw # normalizeSymbol(ev.was.c)
    /\ validateSymbol(compareSymRaw) # <<>>

FastInFlightFor(S) == \E q \in healthReqs : q.fast /\ normalizeSymbol(q.sym) = S

\* C12: on every identity change of the primary or the compare slot a fast
\* health fetch for the new identity is issued at once (and a full one after
\* a short delay).
C12_FetchOnIdentityChange ==
    /\ PrimaryIdentityChanged => FastInFlightFor(primarySymRaw)
    /\ CompareIdentityChanged => FastInFlightFor(compareSymRaw)

NewHealthReqs == healthReqs' \ healthReqs

\* C13: a manual health refresh sends, for each selected identity, a fast
\* request first and a full request afterwards.  No full request is sent
\* before all fast requests of the refresh have completed: full requests are
\* sent by the 50 ms timer only, for the identities of the refresh, when no
\* awaited fast request is left.  While a refresh is marked busy no refresh
\* starts, and the fast requests sent are those of the running refresh, one
\* at a time and in the order of the selection.
C13_FastThenFull ==
    [][/\ (\E q \in NewHealthReqs : ~q.fast) =>
              /\ healthTask.stage = "t50"
              /\ \A r \in healthReqs : ~r.awaited
              /\ {q.sym : q \in NewHealthReqs} = SeqToSet(healthTask.syms)
       /\ ev'.op = "refreshHealth" => ~healthRefreshBusy
       /\ (healthRefreshBusy /\ \E q \in NewHealthReqs : q.fast) =>
              /\ ev'.op = "health"
              /\ \A r \in healthReqs' : r.awaited => r.sym = healthTask'.syms[healthTask'.i]
       /\ healthTask'.stage = "fast" =>
              \E r \in healthReqs' : r.awaited /\ r.fast /\ r.sym = healthTask'.syms[healthTask'.i]
      ]_vars

\* both fast requests of a refresh of two identities are over and both full
\* requests are in flight
C13_Witness ==
    /\ healthTask.stage = "t600"
    /\ Len(healthTask.syms) = 2
    /\ healthTask.syms[1] # healthTask.syms[2]
    /\ \A i \in 1..2 : \E q \in healthReqs : ~q.fast /\ q.sym = healthTask.syms[i]
    /\ \A i \in 1..2 : normalizeSymbol(healthTask.syms[i]) \in DOMAIN applied

IdentitiesInFlight == {normalizeSymbol(q.sym) : q \in healthReqs}

IssuedForSelection ==
    \A q \in NewHealthReqs : normalizeSymbol(q.sym) \in {primarySymRaw', compareSymRaw'}

\* C14: health requests are sent for the currently selected primary and
\* compare identities only, and at any time at most two distinct identities
\* have a health request in flight.
C14_OnlySelectedAtMostTwo ==
    [][IssuedForSelection /\ Cardinality(IdentitiesInFlight') <= 2]_vars

-----------------------------------------------------------------------------
(* Page load and localStorage that throws *)

\* The page is loaded and App has not rendered yet
BootState ==
    /\ mounted = FALSE
    /\ thrown = ""
    /\ primaryItemId = <<>>
    /\ pairOrContract = <<>>
    /\ compareItemId = <<>>
    /\ watchlist = <<>>
    /\ wlSnapshots = <<>>
    /\ wlCache = EmptyObj
    /\ wlErr = <<>>
    /\ wlBusy = FALSE
    /\ wlReqs = {}
    /\ marketHealthMap = EmptyObj
    /\ lsHealth = EmptyObj
    /\ healthRefreshBusy = FALSE
    /\ healthTask = IdleTask
    /\ healthReqs = {}
    /\ live = Null
    /\ healthScore = Null
    /\ compareHealthScore = Null
    /\ lastLiveByKey = EmptyObj
    /\ lastHealthByKey = EmptyObj
    /\ lastCompareHealthByKey = EmptyObj
    /\ lastPrimaryKey = <<>>
    /\ lastCompareKey = <<>>
    /\ allReqs = {}
    /\ busy = FALSE
    /\ gridOrders = <<>>
    /\ gridHiddenIds = {}
    /\ gridTimers = 0
    /\ ordersPollInFlight = FALSE
    /\ gridReqs = {}
    /\ err = <<>>
    /\ now = StartTime
    /\ applied = EmptyObj
    /\ refreshes = 0
    /\ ev = [op |-> "boot"]

\* localStorage is empty (first visit) and either works or throws on every
\* call
InitBoot ==
    /\ storageDown \in BOOLEAN
    /\ InitForms
    /\ lsLastActivity = 0
    /\ BootState

\* the first value of an input: localStorage.getItem(key) || fallback, not
\* guarded (lines 538-546, 621): [threw, val]
initialInput(stored, fallback) ==
    IF storageDown THEN [threw |-> TRUE, val |-> fallback]
    ELSE [threw |-> FALSE, val |-> IF stored = <<>> THEN fallback ELSE stored]

\* loadJson(key, fallback) with nothing stored: never throws
loadJson(fallback) == [threw |-> FALSE, val |-> fallback]

\* First render of App and its mount effects.  The useState initializers run
\* in order; an exception of the first unguarded one ends the render.  With a
\* working storage the state is the one of a first visit after mount.
mountApp ==
    LET p0 == initialInput(<<>>, T_default)
        wl0 == loadJson(DEFAULT_WATCHLIST).val
    IN  /\ ~mounted
        /\ IF p0.threw
           THEN /\ thrown' = "load"
                /\ UNCHANGED <<mounted, selVars, wlVars, dexVars, ordVars, authToken,
                               lsLastActivity, acctListeners, walletVars>>
           ELSE /\ thrown' = ""
                /\ mounted' = TRUE
                /\ authToken' = initialInput(lsToken, <<>>).val
                /\ lsLastActivity' = now
                /\ acctListeners' = <<>>
                /\ walletAddress' = IF lsWallet # Null THEN lsWallet[1].address ELSE <<>>
                /\ walletChainId' = IF lsWallet # Null THEN lsWallet[1].chainId ELSE Null
                /\ walletConnector' = IF lsWallet # Null THEN lsWallet[1].connector ELSE ""
                /\ primaryItemId' = autoSyncPrimary(wl0, p0.val)
                /\ pairOrContract' = <<>>
                /\ compareItemId' = autoSyncCompare(wl0, <<>>)
                /\ watchlist' = wl0
                /\ wlSnapshots' = <<>>
                /\ wlCache' = EmptyObj
                /\ wlErr' = <<>>
                /\ wlBusy' = TRUE
                /\ wlReqs' = {[id |-> 1, items |-> wl0, forAll |-> FALSE]}
                /\ live' = Null
                /\ healthScore' = Null
                /\ compareHealthScore' = Null
                /\ lastLiveByKey' = EmptyObj
                /\ lastHealthByKey' = EmptyObj
                /\ lastCompareHealthByKey' = EmptyObj
                /\ lastPrimaryKey' = key(autoSyncPrimary(wl0, p0.val), <<>>)
                /\ lastCompareKey' = dexKey(autoSyncCompare(wl0, <<>>), <<>>)
                /\ allReqs' = {[item |-> p0.val, pair |-> <<>>, K |-> dexKey(p0.val, <<>>),
                                cItem |-> <<>>, cSym |-> <<>>, cK |-> dexKey(<<>>, <<>>),
                                stage |-> "primary"]}
                /\ busy' = TRUE
                /\ gridOrders' = <<>>
                /\ gridHiddenIds' = {}
                /\ gridTimers' = 0
                /\ ordersPollInFlight' = FALSE
                /\ gridReqs' = {[id |-> 1, src |-> "mount"]}
        /\ ev' = [op |-> "mount"]
        /\ UNCHANGED <<healthVars, err, storageDown, now, formVars, gridActVars, lsToken,
                       lsWallet, applied, refreshes>>

\* the browser starts to refuse access to localStorage (site data blocked)
storageFails ==
    /\ mounted
    /\ ~storageDown
    /\ storageDown' = TRUE
    /\ ev' = [op |-> "storageFails"]
    /\ UNCHANGED <<selVars, wlVars, healthVars, dexVars, ordVars, err, thrown, mounted, now, extVars,
                   applied, refreshes>>

\* logout(): localStorage.removeItem is not guarded (lines 784-787)
logout ==
    /\ mounted
    /\ thrown' = IF storageDown THEN "logout" ELSE thrown
    /\ IF storageDown
       THEN UNCHANGED <<authToken, lsToken>>
       ELSE authToken' = <<>> /\ lsToken' = <<>>
    /\ ev' = [op |-> "logout"]
    /\ UNCHANGED <<selVars, wlVars, healthVars, dexVars, ordVars, err, storageDown, mounted,
                   now, formVars, gridActVars, lsLastActivity, walletVars, acctListeners,
                   lsWallet, applied, refreshes>>

\* an exception that escapes a render or an effect unmounts the application
NoCrash == thrown = ""

NextStorage ==
    /\ NoCrash
    /\ \/ mountApp
       \/ storageFails
       \/ logout
       \/ mounted /\ NextSel

SpecStorage == InitBoot /\ [][NextStorage]_vars

\* C15: if localStorage throws on every call, every operation that reads or
\* writes persisted state still completes without throwing.
C15_StorageNeverThrows == thrown = ""

-----------------------------------------------------------------------------
(* Grid orders: list, hidden ids, polling *)

T_OPEN == <<"O","P","E","N">>
T_open == <<"o","p","e","n">>
T_STOPPED == <<"S","T","O","P","P","E","D">>
T_STOP == <<"S","T","O","P">>
T_DONE == <<"D","O","N","E">>
T_FILLED == <<"F","I","L","L","E","D">>
T_CANCEL == <<"C","A","N","C","E","L">>

DigitText == <<"0","1","2","3","4","5","6","7","8","9">>

\* String(n) for an order id, a number below 10
StringOfId(n) == <<DigitText[n + 1]>>

\* text.includes(pat)
includes(text, pat) ==
    \E i \in 1..(Len(text) - Len(pat) + 1) : SubSeq(text, i, i + Len(pat) - 1) = pat

\* o?.id is truthy: present and not 0
hasId(o) == HasVal(o, "id") /\ o["id"][1] # 0

\* String(o?.status || "").toUpperCase()
statusUpper(o) == toUpperCase(IF HasVal(o, "status") THEN o["status"][1] ELSE <<>>)

\* the ids of the OPEN orders of the list (lines 1058-1062)
openIds(all) ==
    {StringOfId(all[i]["id"][1]) :
        i \in {j \in 1..Len(all) : statusUpper(all[j]) = T_OPEN /\ hasId(all[j])}}

\* the unhide effect without its filter: the hidden ids are kept
unhideOpen_keep(all, hidden) == hidden

\* the hidden ids after the unhide effect ran for the order list all
\* (lines 1054-1072)
unhideOpen(all, hidden) ==
    IF all = <<>> \/ openIds(all) = {} THEN hidden ELSE hidden \ openIds(all)

\* isActiveOrder of the polling effect (lines 1711-1721); of the fields
\* status/state/phase and running/is_running/active/isActive the backend of
\* the model sends status and running
isActiveOrder(o, hidden) ==
    LET id == IF HasVal(o, "id") THEN StringOfId(o["id"][1]) ELSE <<>>
        status == statusUpper(o)
    IN  IF id # <<>> /\ id \in hidden THEN FALSE
        ELSE IF HasVal(o, "running") THEN o["running"][1]
        ELSE IF status = <<>> THEN TRUE
        ELSE ~(\/ includes(status, T_STOP) \/ includes(status, T_DONE)
               \/ includes(status, T_FILLED) \/ includes(status, T_CANCEL))

shouldPoll(orders, hidden) == \E i \in 1..Len(orders) : isActiveOrder(orders[i], hidden)

\* the id of the next /grid/orders request: not the id of a request in flight
FreeGridId == CHOOSE i \in 1..(Cardinality(gridReqs) + 1) : \A r \in gridReqs : r.id # i

\* The polling effect runs for the order list and hidden ids of the new
\* render (lines 1707-1746): the cleanup of the former run clears its timer;
\* if an order is active, poll() is called at once and a new interval timer
\* is set.  poll() does nothing while a poll is in flight.
pollingEffect(reqs, orders, hidden, inFlight, src) ==
    IF shouldPoll(orders, hidden)
    THEN /\ gridTimers' = 1
         /\ IF inFlight
            THEN gridReqs' = reqs /\ ordersPollInFlight' = inFlight
            ELSE gridReqs' = reqs \cup {[id |-> FreeGridId, src |-> src]}
                 /\ ordersPollInFlight' = TRUE
    ELSE /\ gridTimers' = 0
         /\ gridReqs' = reqs
         /\ ordersPollInFlight' = inFlight

\* r?.orders when it is an array, else []
ordersOf(r) == IF IsObject(r) /\ HasVal(r[1], "orders") THEN r[1]["orders"][1] ELSE <<>>

\* A /grid/orders request completes (loadAllGridOrders, lines 1686-1697).  A
\* request sent by poll() resets ordersPollInFlight in its finally block,
\* before the render that setGridOrders scheduled.  The new list runs the
\* unhide effect and the polling effect.
gridResponse(rq, resp) ==
    LET r == jget(resp)
        orders == ordersOf(r.val)
        flag == IF rq.src = "mount" THEN ordersPollInFlight ELSE FALSE
        hidden == unhideOpen(orders, gridHiddenIds)
    IN  /\ rq \in gridReqs
        /\ IF r.threw
           THEN /\ err' = ErrText
                /\ gridReqs' = gridReqs \ {rq}
                /\ ordersPollInFlight' = flag
                /\ UNCHANGED <<gridOrders, gridHiddenIds, gridTimers>>
           ELSE /\ gridOrders' = orders
                /\ gridHiddenIds' = hidden
                /\ pollingEffect(gridReqs \ {rq}, orders, hidden, flag, "poll")
                /\ UNCHANGED err
        /\ ev' = [op |-> "gridResponse", ok |-> ~r.threw, src |-> rq.src,
                  hiddenBefore |-> gridHiddenIds, timersBefore |-> gridTimers]
        /\ UNCHANGED <<selVars, wlVars, healthVars, dexVars, lsVars, now, extVars, applied, refreshes>>

\* the 15 s interval timer of the polling effect fires
gridPollTick ==
    /\ gridTimers > 0
    /\ ~ordersPollInFlight
    /\ ordersPollInFlight' = TRUE
    /\ gridReqs' = gridReqs \cup {[id |-> FreeGridId, src |-> "timer"]}
    /\ ev' = [op |-> "gridPollTick"]
    /\ UNCHANGED <<gridOrders, gridHiddenIds, gridTimers, err, selVars, wlVars, healthVars,
                   dexVars, lsVars, now, extVars, applied, refreshes>>

\* "Remove" on the order row i (lines 1765-1773); the new hidden array reruns
\* the polling effect
removeOrderFromUI(i) ==
    /\ i \in 1..Len(gridOrders)
    /\ hasId(gridOrders[i])
    /\ gridHiddenIds' = gridHiddenIds \cup {StringOfId(gridOrders[i]["id"][1])}
    /\ pollingEffect(gridReqs, gridOrders, gridHiddenIds', ordersPollInFlight, "poll")
    /\ ev' = [op |-> "removeOrder", id |-> StringOfId(gridOrders[i]["id"][1])]
    /\ UNCHANGED <<gridOrders, err, selVars, wlVars, healthVars, dexVars, lsVars, now, extVars, applied,
                   refreshes>>

\* String(o?.item || o?.symbol || "").toUpperCase()
itemUpper(o) == toUpperCase(IF HasVal(o, "item") THEN o["item"][1] ELSE <<>>)

\* removeCoinFromUI(coin) (lines 1775-1786): hides the orders of the coin that
\* are not OPEN
removeCoinFromUI(coin) ==
    /\ toUpperCase(coin) # <<>>
    /\ gridHiddenIds' = gridHiddenIds \cup
          {StringOfId(gridOrders[i]["id"][1]) :
              i \in {j \in 1..Len(gridOrders) :
                        /\ itemUpper(gridOrders[j]) = toUpperCase(coin)
                        /\ hasId(gridOrders[j])
                        /\ statusUpper(gridOrders[j]) # T_OPEN}}
    /\ pollingEffect(gridReqs, gridOrders, gridHiddenIds', ordersPollInFlight, "poll")
    /\ ev' = [op |-> "removeCoin"]
    /\ UNCHANGED <<gridOrders, err, selVars, wlVars, healthVars, dexVars, lsVars, now, extVars, applied,
                   refreshes>>

\* an order as the backend lists it
Order(id, item, status) == [id |-> Some(id), item |-> Some(item), status |-> Some(status)]

\* the order lists the backend answers with: none, one order OPEN or stopped,
\* two orders in different states, an order whose id is 0
OrderLists ==
    {<<>>,
     <<Order(1, T_BTC, T_OPEN)>>,
     <<Order(1, T_BTC, T_STOPPED)>>,
     <<Order(1, T_BTC, T_open), Order(2, T_ETH, T_STOPPED)>>,
     <<Order(1, T_BTC, T_STOPPED), Order(2, T_ETH, T_OPEN)>>,
     <<Order(1, T_BTC, T_STOPPED), Order(2, T_ETH, T_STOPPED)>>,
     <<Order(0, T_BTC, T_OPEN), Order(2, T_ETH, T_STOPPED)>>}

GridResponses ==
    {HttpJson(TRUE, [orders |-> Some(l)]) : l \in OrderLists}
        \cup {HttpJson(TRUE, EmptyObj), [kind |-> "neterr"]}

NextGrid ==
    \/ \E rq \in gridReqs, resp \in GridResponses : gridResponse(rq, resp)
    \/ gridPollTick
    \/ \E i \in 1..Len(gridOrders) : removeOrderFromUI(i)
    \/ \E coin \in {T_BTC, T_eth} : removeCoinFromUI(coin)

SpecGrid == Init /\ [][NextGrid]_vars

\* the order list was replaced by a backend answer in this step
OrderListUpdate == ev'.op = "gridResponse" /\ ev'.ok

\* the ids the new list reports with status OPEN
ReportedOpen ==
    {StringOfId(gridOrders'[i]["id"][1]) :
        i \in {j \in 1..Len(gridOrders') :
                  /\ HasVal(gridOrders'[j], "id")
                  /\ HasVal(gridOrders'[j], "status")
                  /\ toUpperCase(gridOrders'[j]["status"][1]) = T_OPEN}}

\* C16: after an update of the order list, no id that the backend reports as
\* OPEN is hidden, and every hidden id that is not reported as OPEN stays
\* hidden.
C16_OpenOrdersUnhidden ==
    [][OrderListUpdate =>
          /\ ReportedOpen \cap gridHiddenIds' = {}
          /\ (gridHiddenIds \ ReportedOpen) \subseteq gridHiddenIds']_vars

\* order 2 was hidden and came back OPEN, order 1 is stopped and stays hidden
C16_Witness ==
    /\ ev.op = "gridResponse"
    /\ ev.ok
    /\ ev.hiddenBefore = {StringOfId(1), StringOfId(2)}
    /\ gridOrders = <<Order(1, T_BTC, T_STOPPED), Order(2, T_ETH, T_OPEN)>>
    /\ gridHiddenIds = {StringOfId(1)}

\* C17: while the polling timer runs, the completion of a poll request sends
\* no new request: requests are sent when polling starts and by the timer;
\* and there is never more than one polling timer.
C17_PollOnlyOnTimer ==
    [][/\ (ev'.op = "gridResponse" /\ ev'.src # "mount" /\ gridTimers > 0)
            => gridReqs' \subseteq gridReqs
       /\ gridTimers' <= 1]_vars

-----------------------------------------------------------------------------
(* The 6 hour window of the persisted FULL health record *)

TickHours == 3
MaxNow == 10

\* time passes
Tick ==
    /\ now + TickHours <= MaxNow
    /\ now' = now + TickHours
    /\ ev' = [op |-> "tick"]
    /\ UNCHANGED <<selVars, wlVars, healthVars, dexVars, ordVars, err, lsVars, extVars, applied,
                   refreshes>>

\* A returning visitor whose stored inputs are the first watchlist symbol and
\* a DEX item id: localStorage holds FULL health records, written at the time
\* of the page load, of the first watchlist symbol and, from an earlier
\* selection, of the second one, which is not selected and not in memory.
InitAge ==
    /\ storageDown = FALSE
    /\ primaryItemId = DEFAULT_WATCHLIST[1]
    /\ pairOrContract = <<>>
    /\ compareItemId = T_dexB
    /\ watchlist = DEFAULT_WATCHLIST
    /\ wlSnapshots = Rows(DEFAULT_WATCHLIST, Some(100))
    /\ wlCache = mergeRows(EmptyObj, Rows(DEFAULT_WATCHLIST, Some(100)))
    /\ wlErr = <<>>
    /\ wlBusy = FALSE
    /\ wlReqs = {}
    /\ now = StartTime
    /\ lsHealth = writeFullHealthCache(
                     writeFullHealthCache(EmptyObj, DEFAULT_WATCHLIST[1], H_full1),
                     DEFAULT_WATCHLIST[2], H_full2)
    /\ marketHealthMap = hydrateFrom(EmptyObj, <<DEFAULT_WATCHLIST[1], T_dexB>>)
    /\ healthRefreshBusy = FALSE
    /\ healthTask = IdleTask
    /\ healthReqs = {}
    /\ live = Null
    /\ healthScore = Null
    /\ compareHealthScore = Null
    /\ lastLiveByKey = EmptyObj
    /\ lastHealthByKey = EmptyObj
    /\ lastCompareHealthByKey = EmptyObj
    /\ lastPrimaryKey = key(DEFAULT_WATCHLIST[1], <<>>)
    /\ lastCompareKey = dexKey(T_dexB, <<>>)
    /\ allReqs = {}
    /\ busy = FALSE
    /\ applied = EmptyObj
    /\ refreshes = 0
    /\ gridOrders = <<>>
    /\ gridHiddenIds = {}
    /\ gridTimers = 0
    /\ ordersPollInFlight = FALSE
    /\ gridReqs = {}
    /\ err = <<>>
    /\ thrown = ""
    /\ mounted = TRUE
    /\ InitExt
    /\ ev = [op |-> "init"]

\* time passes while the visitor edits the compare input and removes and adds
\* watchlist symbols
NextAge ==
    \/ Tick
    \/ \E t \in CompareEdits : setCompareItemId(t)
    \/ \E i \in 1..Len(watchlist) : removeFromWatchlist(watchlist[i])
    \/ \E c \in AddedCoins : addResolvedToWatchlist(c)
    \/ \E rq \in wlReqs : \E resp \in WlResponses(rq.items) : wlResponse(rq, resp)

SpecAge == InitAge /\ [][NextAge]_vars

\* the market health effect runs in this step: a selected symbol changed
HydrateRuns == primarySymRaw' # primarySymRaw \/ compareSymRaw' # compareSymRaw

\* the stored record of S is at most 6 hours old
WithinWindow(S) == now - lsHealth[S].ts <= 6

\* C18: when the selection changes, the stored FULL record of a selected
\* identity is loaded into the in-memory map if it is at most 6 hours old; a
\* record older than 6 hours is never loaded.
C18_RehydrateWithinWindow ==
    [][\A S \in DOMAIN lsHealth :
          /\ (HydrateRuns /\ S \in {primarySymRaw', compareSymRaw'} /\ WithinWindow(S))
                => Get(marketHealthMap', S) = Some(lsHealth[S].data)
          /\ (~WithinWindow(S) /\ Get(marketHealthMap', S) # Get(marketHealthMap, S))
                => Get(marketHealthMap', S) = Null]_vars

\* the second watchlist symbol, absent from memory, was chosen as compare when
\* its stored record was exactly 6 hours old, and was loaded
C18_Witness ==
    /\ ev.op = "setCompare"
    /\ compareSymRaw = normalizeSymbol(DEFAULT_WATCHLIST[2])
    /\ normalizeSymbol(ev.was.c) # compareSymRaw
    /\ now - lsHealth[compareSymRaw].ts = HEALTH_FULL_CACHE_MAX_AGE_H
    /\ Get(marketHealthMap, compareSymRaw) = Some(H_full2)

\* the same choice made when the record was 9 hours old: nothing is loaded
C18_StaleNotLoaded ==
    /\ ev.op = "setCompare"
    /\ compareSymRaw = normalizeSymbol(DEFAULT_WATCHLIST[2])
    /\ now - lsHealth[compareSymRaw].ts > HEALTH_FULL_CACHE_MAX_AGE_H
    /\ Get(marketHealthMap, compareSymRaw) = Null

-----------------------------------------------------------------------------
(* The snapshot cache under full and partial refreshes *)

\* items.filter((it) => set.has(String(it.symbol || '').toUpperCase())), set
\* being the upper-cased onlySyms (lines 1119-1122)
RECURSIVE onlyItems(_, _)
onlyItems(items, onlySyms) ==
    IF items = <<>> THEN <<>>
    ELSE (IF \E i \in 1..Len(onlySyms) : toUpperCase(onlySyms[i]) = toUpperCase(Head(items))
          THEN <<Head(items)>> ELSE <<>>) \o onlyItems(Tail(items), onlySyms)

\* refreshWatchlist([primarySym, compareSym].filter(Boolean)) up to its await
\* (line 2043); an empty list asks for every item
refreshSelectedSnapshots ==
    LET onlySyms == FilterSeq(<<primarySym, compareSym>>, NonEmpty)
        items == IF onlySyms # <<>> THEN onlyItems(watchlist, onlySyms) ELSE watchlist
    IN  /\ wlErr' = <<>>
        /\ IF items = <<>>
           THEN /\ wlSnapshots' = <<>>
                /\ UNCHANGED <<wlBusy, wlReqs>>
           ELSE /\ Cardinality(wlReqs) < MaxWlReqs
                /\ wlBusy' = TRUE
                /\ wlReqs' = wlReqs \cup {NewWlReq(items, FALSE)}
                /\ UNCHANGED wlSnapshots
        /\ ev' = [op |-> "refreshSelected"]
        /\ UNCHANGED <<selVars, watchlist, wlCache, healthVars, dexVars, now, extVars, ordVars, err,
                       lsVars, applied, refreshes>>

\* a row that reports the 24 h change and no price
ChangeRow(sym) == [symbol |-> Some(sym), change24h |-> Some(5)]

\* The answers to a snapshot request for items: all rows priced 100 or 200,
\* the price null, the price absent, the first row in lower case, the first
\* symbol twice with and without a price, no rows, a text that is not JSON,
\* a failure
SnapResponses(items) ==
    {HttpJson(TRUE, [results |-> Some(rows)]) :
        rows \in {Rows(items, Some(100)),
                  Rows(items, Some(200)),
                  Rows(items, Null),
                  <<ChangeRow(Head(items))>>,
                  <<Row(T_eth, Some(200))>>,
                  <<Row(Head(items), Some(200)), ChangeRow(Head(items)),
                    Row(Head(items), Null)>>}}
        \cup {HttpJson(TRUE, EmptyObj),
              [kind |-> "http", ok |-> TRUE, body |-> "text"],
              [kind |-> "neterr"]}

NextSnap ==
    \/ refreshWatchlist
    \/ refreshSelectedSnapshots
    \/ \E rq \in wlReqs : \E resp \in SnapResponses(rq.items) : wlResponse(rq, resp)
    \/ \E t \in CompareEdits : setCompareItemId(t)

SpecSnap == Init /\ [][NextSnap]_vars

SnapFields == {"price", "change24h", "volume24h", "liquidity"}

\* cache[S][k], Null when absent
FieldOf(cache, S, k) == IF S \in DOMAIN cache /\ HasVal(cache[S], k) THEN cache[S][k] ELSE Null

\* the value of field k in the last of the rows for S that has one; Null when
\* no row reports it
LastNonNull(rows, S, k) ==
    LET idx == {i \in 1..Len(rows) :
                   /\ HasVal(rows[i], "symbol")
                   /\ normalizeSymbol(rows[i]["symbol"][1]) = S
                   /\ HasVal(rows[i], k)}
    IN  IF idx = {} THEN Null
        ELSE rows[CHOOSE i \in idx : \A j \in idx : j <= i][k]

\* the symbols the rows name
RowSymbols(rows) ==
    {normalizeSymbol(rows[i]["symbol"][1]) : i \in {j \in 1..Len(rows) : HasVal(rows[j], "symbol")}}

\* C19: a successful snapshot refresh, whole or partial, leaves in the cache,
\* for every symbol and each of price, change24h, volume24h and liquidity,
\* the last non-null value it reported, and the former value where it
\* reported none; a failed refresh leaves the cache as it was.
C19_CacheKeepsLastNonNull ==
    [][ev'.op = "wlResponse" =>
          IF ev'.ok
          THEN \A S \in DOMAIN wlCache \cup RowSymbols(wlSnapshots') : \A k \in SnapFields :
                   FieldOf(wlCache', S, k) =
                       IF LastNonNull(wlSnapshots', S, k) # Null
                       THEN LastNonNull(wlSnapshots', S, k)
                       ELSE FieldOf(wlCache, S, k)
          ELSE wlCache' = wlCache]_vars

\* a partial answer for the first symbol reported the 24 h change and a null
\* price: the cached price of an earlier refresh is still there
C19_Witness ==
    /\ ev.op = "wlResponse"
    /\ ev.ok
    /\ wlSnapshots = <<ChangeRow(DEFAULT_WATCHLIST[1])>>
    /\ FieldOf(wlCache, normalizeSymbol(DEFAULT_WATCHLIST[1]), "price") = Some(200)
    /\ FieldOf(wlCache, normalizeSymbol(DEFAULT_WATCHLIST[1]), "change24h") = Some(5)

-----------------------------------------------------------------------------
(* Failures of the background fetches *)

\* the periodic snapshot refresh and the order polling, with their answers
NextBackground ==
    \/ refreshWatchlist
    \/ \E rq \in wlReqs : \E resp \in WlResponses(rq.items) : wlResponse(rq, resp)
    \/ \E rq \in gridReqs, resp \in GridResponses : gridResponse(rq, resp)
    \/ gridPollTick

SpecBackground == Init /\ [][NextBackground]_vars

\* a snapshot request of the periodic refresh failed in this step
PeriodicSnapshotFailed ==
    /\ ev'.op = "wlResponse"
    /\ ~ev'.ok
    /\ \A rq \in wlReqs \ wlReqs' : ~rq.forAll

\* a request of the order polling failed in this step
OrderPollFailed ==
    /\ ev'.op = "gridResponse"
    /\ ~ev'.ok
    /\ ev'.src \in {"poll", "timer"}

\* the failed periodic snapshot refresh keeps the cache and shows no error
SnapshotFailureSilent ==
    [][PeriodicSnapshotFailed => wlCache' = wlCache /\ wlErr' = <<>> /\ err' = err]_vars

\* the failed order poll keeps the order list and shows no error
OrderPollFailureSilent ==
    [][OrderPollFailed => gridOrders' = gridOrders /\ err' = err /\ wlErr' = wlErr]_vars

\* C20: a failed background fetch (periodic snapshot refresh, order poll)
\* leaves the cached values in place and sets neither the error toast nor the
\* watchlist error text.
C20_BackgroundFailureSilent ==
    [][/\ PeriodicSnapshotFailed => wlCache' = wlCache /\ wlErr' = <<>> /\ err' = err
       /\ OrderPollFailed => gridOrders' = gridOrders /\ err' = err /\ wlErr' = wlErr]_vars

-----------------------------------------------------------------------------
(* The "add DEX token" form *)

HexChars == Digits \cup {"a","b","c","d","e","f","A","B","C","D","E","F"}

\* the test of the contract left out: every text passes
isEvmAddress_any(t) == TRUE

\* /^0x[a-fA-F0-9]{40}$/.test(t)
isEvmAddress(t) ==
    /\ Len(t) = 42
    /\ t[1] = "0"
    /\ t[2] = "x"
    /\ \A i \in 3..42 : t[i] \in HexChars

AddDexSymbolErr == <<"s","y","m","b","o","l","?">>
AddDexContractErr == <<"0","x","+","4","0","?">>

\* addDexToWatchlist() with the form holding symIn (addDexSymbol ||
\* addPickerQuery), contractIn and chainIn (lines 1300-1326).  A new symbol
\* map reruns the periodic refresh effect, which calls refreshWatchlist().
addDexToWatchlist(symIn, contractIn, chainIn) ==
    LET sym == normalizeSymbol(symIn)
        contract == trim(contractIn)
        chain == trim(chainIn)
        wl1 == IF \E i \in 1..Len(watchlist) : watchlist[i] = sym
               THEN watchlist ELSE <<sym>> \o watchlist
    IN  /\ mounted
        /\ IF sym = <<>> \/ ~isEvmAddress(contract)
           THEN /\ addDexErr' = IF sym = <<>> THEN AddDexSymbolErr ELSE AddDexContractErr
                /\ UNCHANGED <<symbolMap, selVars, wlVars, marketHealthMap, live, healthScore,
                               compareHealthScore, lastPrimaryKey, lastCompareKey, thrown>>
           ELSE /\ Cardinality(wlReqs) < MaxWlReqs
                /\ addDexErr' = <<>>
                /\ symbolMap' = Put(symbolMap, sym,
                                    [mode |-> "dex", contract |-> contract, chain |-> chain])
                /\ Render(primaryItemId, pairOrContract, compareItemId, wl1, TRUE)
                /\ wlErr' = <<>>
                /\ wlBusy' = TRUE
                /\ wlReqs' = wlReqs \cup {NewWlReq(wl1, FALSE)}
                /\ UNCHANGED <<wlSnapshots, wlCache>>
        /\ ev' = [op |-> "addDex", sym |-> sym, contract |-> contract, was |-> selBefore]
        /\ UNCHANGED <<lsHealth, healthRefreshBusy, healthTask, healthReqs, lastLiveByKey,
                       lastHealthByKey, lastCompareHealthByKey, allReqs, busy, now, gridActVars,
                       authVars, ordVars, err, storageDown, mounted, applied, refreshes>>

\* n times the character c
Rep(c, n) == [i \in 1..n |-> c]

T_PEPE == <<"P","E","P","E">>
T_polygon == <<"p","o","l","y","g","o","n">>
Addr_a == <<"0","x">> \o Rep("a", 40)
Addr_F9 == <<"0","x">> \o Rep("F", 39) \o <<"9">>

\* what the user leaves in the symbol field: a ticker, blanks, nothing,
\* characters that are no symbol
DexSymbolInputs == {T_PEPE, <<" ">>, <<>>, <<"!","?">>}

\* the contract field: two addresses, one of them between blanks; too short,
\* too long, a letter that is no hex digit, an upper-case X, no prefix, empty
DexContractInputs ==
    {Addr_a,
     <<" ">> \o Addr_F9 \o <<" ">>,
     <<"0","x">> \o Rep("a", 39),
     <<"0","x">> \o Rep("a", 41),
     <<"0","x">> \o Rep("a", 39) \o <<"g">>,
     <<"0","X">> \o Rep("a", 40),
     Rep("a", 42),
     <<>>}

-----------------------------------------------------------------------------
(* Manual grid orders *)

\* JS numbers the model needs: an integer, NaN, Infinity
Num(v) == [k |-> "num", v |-> v]
NaN == [k |-> "nan", v |-> 0]
Infinity == [k |-> "inf", v |-> 0]

T_Infinity == <<"I","n","f","i","n","i","t","y">>

DigitValue(c) == CHOOSE d \in 0..9 : DigitText[d + 1] = c

RECURSIVE DecimalValue(_)
DecimalValue(t) ==
    IF t = <<>> THEN 0 ELSE 10 * DecimalValue(SubSeq(t, 1, Len(t) - 1)) + DigitValue(t[Len(t)])

AllDigits(t) == t # <<>> /\ \A i \in 1..Len(t) : t[i] \in Digits

\* Number(text) for texts without decimal point or exponent: blanks are
\* trimmed, the empty text is 0, a sign may precede the digits
Number(t) ==
    LET u == trim(t)
    IN  IF u = <<>> THEN Num(0)
        ELSE IF u = T_Infinity THEN Infinity
        ELSE IF AllDigits(u) THEN Num(DecimalValue(u))
        ELSE IF u[1] = "-" /\ AllDigits(Tail(u)) THEN Num(0 - DecimalValue(Tail(u)))
        ELSE IF u[1] = "+" /\ AllDigits(Tail(u)) THEN Num(DecimalValue(Tail(u)))
        ELSE NaN

\* Number.isFinite(n) && n > 0
FinitePositive(n) == n.k = "num" /\ n.v > 0

\* the values of dexVars other than busy
dexRefs == <<live, healthScore, compareHealthScore, lastLiveByKey, lastHealthByKey,
             lastCompareHealthByKey, lastPrimaryKey, lastCompareKey, allReqs>>

\* the user types into the manual price and quantity inputs
typeManualOrder(p, q) ==
    /\ mounted
    /\ manualPrice' = p
    /\ manualQty' = q
    /\ ev' = [op |-> "typeManual"]
    /\ UNCHANGED <<selVars, wlVars, healthVars, dexVars, ordVars, err, lsVars, formVars,
                   session, autoRun, gridMeta, gridAct, authVars, now, applied, refreshes>>

MissingItemErr == <<"i","t","e","m","?">>
ManualPriceErr == <<"p","r","i","c","e","?">>
ManualQtyErr == <<"q","t","y","?">>
RouteNotFoundErr == <<"n","o"," ","r","o","u","t","e">>

\* the number of candidate routes in tryUrls (lines 1931-1937)
ManualRoutes == 5

\* (gridSelectedItem || primaryItemId || "").trim(); the grid item selector is
\* left at its initial empty value
gridItem == trim(primaryItemId)

\* the local checks of addManualOrder: Null, or Some(message)
manualOrderProblem ==
    LET price == Number(manualPrice)
        qtyNum == IF manualQty # <<>> THEN Some(Number(manualQty)) ELSE Null
    IN  IF gridItem = <<>> THEN Some(MissingItemErr)
        ELSE IF ~FinitePositive(price) THEN Some(ManualPriceErr)
        ELSE IF qtyNum # Null /\ ~FinitePositive(qtyNum[1]) THEN Some(ManualQtyErr)
        ELSE Null


\* click on "Add" of the manual order form (disabled while busy), up to the
\* first await (lines 1905-1933)
addManualOrder ==
    /\ mounted
    /\ ~busy
    /\ gridAct = IdleAct
    /\ IF manualOrderProblem # Null
       THEN /\ err' = manualOrderProblem[1]
            /\ UNCHANGED <<busy, gridAct>>
       ELSE /\ err' = <<>>
            /\ busy' = TRUE
            /\ gridAct' = [op |-> "manual", stage |-> "post", route |-> 1]
    /\ ev' = [op |-> "addManualOrder", price |-> manualPrice, qty |-> manualQty]
    /\ UNCHANGED <<selVars, wlVars, healthVars, dexRefs, ordVars, lsVars, formVars, session,
                   autoRun, gridMeta, manualPrice, manualQty, authVars, now, applied, refreshes>>

-----------------------------------------------------------------------------
(* Grid actions: start, tick, stop, autorun, and the routes of the manual   *)
(* order                                                                    *)

T_FailedToFetch == <<"F","a","i","l","e","d"," ","t","o"," ","f","e","t","c","h">>
T_Timeout == <<"T","i","m","e","o","u","t"," ","(","1","5","s",")">>

\* res.status as text, for a status of three digits
StatusDigits(n) ==
    <<DigitText[(n \div 100) + 1], DigitText[((n \div 10) % 10) + 1], DigitText[(n % 10) + 1]>>

\* res.statusText
StatusText(n) == IF n = 404 THEN <<"N","o","t"," ","F","o","u","n","d">> ELSE <<"E","r","r","o","r">>

\* data.error || data.message of the parsed body, Null when there is none
bodyMessage(resp) ==
    IF resp.body = "json" /\ HasVal(resp.obj, "error") /\ resp.obj["error"][1] # <<>>
    THEN resp.obj["error"]
    ELSE IF resp.body = "json" /\ HasVal(resp.obj, "message") /\ resp.obj["message"][1] # <<>>
    THEN resp.obj["message"]
    ELSE Null

\* the message of the Error that jget / jpost throws for resp (lines 185-191)
errorMessage(resp) ==
    IF resp.kind = "neterr" THEN T_FailedToFetch
    ELSE IF resp.kind = "timeout" THEN T_Timeout
    ELSE IF bodyMessage(resp) # Null THEN bodyMessage(resp)[1]
    ELSE StatusDigits(resp.status) \o <<" ">> \o StatusText(resp.status)

\* /^404\b/.test(msg) || /\b404\b/.test(msg)
mentions404(msg) ==
    \E i \in 1..(Len(msg) - 2) :
        /\ msg[i] = "4" /\ msg[i + 1] = "0" /\ msg[i + 2] = "4"
        /\ (i = 1 \/ msg[i - 1] \notin WordChars)
        /\ (i + 2 = Len(msg) \/ msg[i + 3] \notin WordChars)


\* an HTTP answer with a status that is not ok and a body that is not JSON
HttpStatus(n) == [kind |-> "http", ok |-> FALSE, body |-> "text", status |-> n]

\* an HTTP answer with a status that is not ok and a JSON body with an error
HttpError(n, text) ==
    [kind |-> "http", ok |-> FALSE, body |-> "json", status |-> n, obj |-> [error |-> Some(text)]]

\* a 2xx answer without body
HttpNoContent == [kind |-> "http", ok |-> TRUE, body |-> "empty", status |-> 204]

\* r?.f
Field(r, f) == IF IsObject(r) /\ HasVal(r[1], f) THEN r[1][f] ELSE Null

\* Number(effectiveLive?.price) when finite, else null
livePrice ==
    IF effectiveLive # Null /\ HasVal(effectiveLive[1], "price") THEN effectiveLive[1]["price"]
    ELSE Null

\* the catch block without the finally block: the busy flag stays set
gridActFails_keepBusy(msg) ==
    /\ err' = msg
    /\ busy' = busy
    /\ gridAct' = IdleAct

\* the catch and finally blocks of a grid action
gridActFails(msg) ==
    /\ err' = msg
    /\ busy' = FALSE
    /\ gridAct' = IdleAct

\* a grid action throws before its request: the item id is missing
gridActStart(act) ==
    /\ mounted
    /\ ~busy
    /\ gridAct = IdleAct
    /\ IF gridItem = <<>>
       THEN /\ err' = MissingItemErr
            /\ UNCHANGED <<busy, gridAct>>
       ELSE /\ err' = <<>>
            /\ busy' = TRUE
            /\ gridAct' = act
    /\ ev' = [op |-> act.op, was |-> [session |-> session, autoRun |-> autoRun,
                                     gridOrders |-> gridOrders, gridMeta |-> gridMeta]]
    /\ UNCHANGED <<selVars, wlVars, healthVars, dexRefs, ordVars, lsVars, formVars, session,
                   autoRun, gridMeta, manualPrice, manualQty, authVars, now, applied, refreshes>>

\* the Start, Tick and Stop buttons and the autorun switch (disabled while
\* busy), up to the first await
startGrid == gridActStart([op |-> "start", stage |-> "post", livePrice |-> livePrice])

tickGrid ==
    gridActStart([op |-> "tick", stage |-> "post", livePrice |-> livePrice, meta |-> gridMeta])

stopGrid == gridActStart([op |-> "stop", stage |-> "autorunOff"])

toggleAutorun(next) ==
    /\ autoRun # next
    /\ gridActStart([op |-> "autorun", stage |-> "post", enable |-> next])

\* the values the ghost record of a completion carries
actBefore ==
    [session |-> session, autoRun |-> autoRun, gridOrders |-> gridOrders, gridMeta |-> gridMeta]

\* the request of a start, tick, stop or autorun action is answered
gridActAnswer(resp) ==
    LET r == jget(resp)
        op == gridAct.op
    IN  /\ op \in {"start", "tick", "stop", "autorun"}
        /\ gridAct.stage \in {"post", "autorunOff"}
        /\ IF gridAct.stage = "autorunOff"
           THEN \* stop: the failure of the autorun request is ignored
                /\ gridAct' = [op |-> "stop", stage |-> "post"]
                /\ UNCHANGED <<err, busy, session, autoRun>>
           ELSE IF r.threw
           THEN /\ gridActFails(errorMessage(resp))
                /\ UNCHANGED <<session, autoRun>>
           ELSE IF op = "autorun"
           THEN /\ autoRun' = gridAct.enable
                /\ busy' = FALSE
                /\ gridAct' = IdleAct
                /\ UNCHANGED <<err, session>>
           ELSE /\ session' = IF op = "stop" THEN "STOPPED" ELSE "RUNNING"
                /\ autoRun' = IF op = "stop" THEN FALSE ELSE autoRun
                /\ gridAct' = [gridAct EXCEPT !.stage = "reload"] @@ [r |-> r.val]
                /\ UNCHANGED <<err, busy>>
        /\ ev' = [op |-> "gridActAnswer", act |-> op, stage |-> gridAct.stage,
                  failed |-> r.threw, kind |-> resp.kind, was |-> actBefore]
        /\ UNCHANGED <<selVars, wlVars, healthVars, dexRefs, ordVars, lsVars, formVars, gridMeta,
                       manualPrice, manualQty, authVars, now, applied, refreshes>>

\* a route of the manual order is answered (lines 1941-1957)
manualAnswer(resp) ==
    LET r == jget(resp)
    IN  /\ gridAct.op = "manual"
        /\ gridAct.stage = "post"
        /\ IF ~r.threw
           THEN IF r.val # Null
                THEN /\ gridAct' = [op |-> "manual", stage |-> "reload", r |-> r.val]
                     /\ UNCHANGED <<err, busy>>
                ELSE gridActFails(RouteNotFoundErr)
           ELSE IF mentions404(errorMessage(resp))
                THEN IF gridAct.route < ManualRoutes
                     THEN /\ gridAct' = [gridAct EXCEPT !.route = @ + 1]
                          /\ UNCHANGED <<err, busy>>
                     ELSE gridActFails(RouteNotFoundErr)
                ELSE gridActFails(errorMessage(resp))
        /\ ev' = [op |-> "manualAnswer", route |-> gridAct.route, resp |-> resp,
                  was |-> actBefore]
        /\ UNCHANGED <<selVars, wlVars, healthVars, dexRefs, ordVars, lsVars, formVars, session,
                       autoRun, gridMeta, manualPrice, manualQty, authVars, now, applied,
                       refreshes>>

\* setGridMeta of startGrid (lines 1810-1818) and of tickGrid (lines 1843-1849);
\* of the fields, tick, price and price_source are kept
metaAfter(act) ==
    IF act.op = "start"
    THEN Some([tick |-> IF Field(act.r, "tick") \in {Null, Some(0)} THEN Some(0)
                        ELSE Field(act.r, "tick"),
               price |-> IF Field(act.r, "price") \in {Null, Some(0)} THEN act.livePrice
                         ELSE Field(act.r, "price"),
               price_source |-> IF act.livePrice # Null THEN Some("frontend")
                                ELSE Some("snapshot")])
    ELSE Some([tick |-> Field(act.r, "tick"),
               price |-> IF Field(act.r, "price") # Null THEN Field(act.r, "price")
                         ELSE IF act.livePrice # Null THEN act.livePrice
                         ELSE IF act.meta # Null /\ HasVal(act.meta[1], "price")
                              THEN act.meta[1]["price"]
                         ELSE Null,
               price_source |-> IF Field(act.r, "price_source") # Null
                                THEN Field(act.r, "price_source")
                                ELSE IF act.livePrice \notin {Null, Some(0)}
                                     THEN Some("frontend") ELSE Some("cache")])

\* The loadAllGridOrders() that a grid action awaits is answered, and the
\* action runs to its end.  loadAllGridOrders catches its own failure.
gridActReload(resp) ==
    LET r == jget(resp)
        orders == ordersOf(r.val)
        hidden == unhideOpen(orders, gridHiddenIds)
        op == gridAct.op
    IN  /\ op \in {"start", "tick", "stop", "manual"}
        /\ gridAct.stage = "reload"
        /\ IF r.threw
           THEN /\ err' = ErrText
                /\ UNCHANGED <<gridOrders, gridHiddenIds, gridTimers, gridReqs,
                               ordersPollInFlight>>
           ELSE /\ gridOrders' = orders
                /\ gridHiddenIds' = hidden
                /\ pollingEffect(gridReqs, orders, hidden, ordersPollInFlight, "poll")
                /\ UNCHANGED err
        /\ gridMeta' = IF op = "stop" THEN Null
                       ELSE IF op = "manual" THEN gridMeta
                       ELSE metaAfter(gridAct)
        /\ manualPrice' = IF op = "manual" THEN <<>> ELSE manualPrice
        /\ manualQty' = IF op = "manual" THEN <<>> ELSE manualQty
        /\ busy' = FALSE
        /\ gridAct' = IdleAct
        /\ ev' = [op |-> "gridActReload", act |-> op, failed |-> r.threw, was |-> actBefore]
        /\ UNCHANGED <<selVars, wlVars, healthVars, dexRefs, lsVars, formVars, session, autoRun,
                       authVars, now, applied, refreshes>>

-----------------------------------------------------------------------------
(* Local checks of the forms *)

\* what the user types as price and as quantity
ManualPriceInputs ==
    {<<>>, <<"5">>, <<"0">>, <<"-","1">>, <<"a","b","c">>, <<" ","7"," ">>, T_Infinity}
ManualQtyInputs == {<<>>, <<"2">>, <<"0">>, <<" ">>, <<"x">>}

\* the answers to a manual order request: accepted with a JSON body, accepted
\* without body, no such route, a server error, a server error whose message
\* quotes a 404, a 404 whose body carries its own message, no connection
T_upstream404 == <<"u","p","s","t","r","e","a","m"," ","4","0","4">>
T_unknownRoute == <<"u","n","k","n","o","w","n">>
ManualResponses ==
    {HttpJson(TRUE, [ok |-> Some(TRUE)]),
     HttpNoContent,
     HttpStatus(404),
     HttpStatus(500),
     HttpError(500, T_upstream404),
     HttpError(404, T_unknownRoute),
     [kind |-> "neterr"]}

\* the forms are filled in and sent; the requests of a form that passes the
\* local checks are not answered
NextForms ==
    \/ \E sy \in DexSymbolInputs, c \in DexContractInputs : addDexToWatchlist(sy, c, T_polygon)
    \/ \E pr \in ManualPriceInputs, q \in ManualQtyInputs : typeManualOrder(pr, q)
    \/ addManualOrder

SpecForms == InitReturning /\ [][NextForms]_vars

\* 0x followed by 40 hex digits
WellFormedContract(t) ==
    /\ Len(t) = 42
    /\ SubSeq(t, 1, 2) = <<"0","x">>
    /\ \A i \in 3..42 : t[i] \in HexChars

\* the text is a number greater than 0
PositiveNumberText(t) == Number(t).k = "num" /\ Number(t).v > 0

\* C21: malformed local input blocks the action before any request.
\* addDexToWatchlist with an empty symbol or a contract that is not 0x and 40
\* hex digits sets the error text and leaves the watchlist and the symbol map
\* as they were; addManualOrder with a price that is no number > 0, or with a
\* quantity that is not > 0, sets the error and sends nothing.
C21_MalformedInputBlocked ==
    [][/\ (ev'.op = "addDex" /\ (ev'.sym = <<>> \/ ~WellFormedContract(ev'.contract)))
            => /\ addDexErr' # <<>>
               /\ watchlist' = watchlist
               /\ symbolMap' = symbolMap
               /\ wlReqs' = wlReqs
       /\ (/\ ev'.op = "addManualOrder"
           /\ \/ ~PositiveNumberText(manualPrice)
              \/ (manualQty # <<>> /\ ~PositiveNumberText(manualQty)))
            => /\ err' # <<>>
               /\ gridAct' = IdleAct
               /\ busy' = FALSE
               /\ gridReqs' = gridReqs]_vars

\* a contract with a letter that is no hex digit was refused, and then a
\* manual order with the quantity 0: both errors are shown, nothing was added
C21_Witness ==
    /\ ev.op = "addManualOrder"
    /\ ev.price = <<"5">>
    /\ ev.qty = <<"0">>
    /\ err = ManualQtyErr
    /\ gridAct = IdleAct
    /\ addDexErr = AddDexContractErr
    /\ watchlist = DEFAULT_WATCHLIST
    /\ symbolMap = DEFAULT_SYMBOL_MAP

-----------------------------------------------------------------------------
(* Grid actions and their failures *)

\* the answers to /grid/start, /grid/tick, /grid/stop and /grid/autorun
GridActResponses ==
    {HttpJson(TRUE, [tick |-> Some(3), price |-> Some(250)]),
     HttpJson(TRUE, EmptyObj),
     [kind |-> "neterr"],
     [kind |-> "timeout"],
     HttpStatus(500)}

\* the answers to the /grid/orders request of a grid action
ReloadResponses ==
    {HttpJson(TRUE, [orders |-> Some(<<Order(1, T_BTC, T_OPEN)>>)]),
     HttpJson(TRUE, [orders |-> Some(<<Order(1, T_BTC, T_STOPPED)>>)]),
     [kind |-> "neterr"]}

NextGridAct ==
    \/ startGrid
    \/ tickGrid
    \/ stopGrid
    \/ \E next \in BOOLEAN : toggleAutorun(next)
    \/ \E resp \in GridActResponses : gridActAnswer(resp)
    \/ \E resp \in ReloadResponses : gridActReload(resp)
    \/ typeManualOrder(<<"5">>, <<"2">>)
    \/ addManualOrder
    \/ \E resp \in ManualResponses : manualAnswer(resp)

SpecGridAct == InitReturning /\ [][NextGridAct]_vars

\* the request of a start, tick, stop or autorun action, or a route of a
\* manual order, failed in this step with a network error or a timeout
GridActionFailed ==
    \/ /\ ev'.op = "gridActAnswer"
       /\ ev'.stage = "post"
       /\ ev'.kind \in {"neterr", "timeout"}
    \/ /\ ev'.op = "manualAnswer"
       /\ ev'.resp.kind \in {"neterr", "timeout"}

\* C22: when a grid action of the user (start, tick, stop, autorun, manual
\* add) fails with a network error or a timeout, the message is shown, busy
\* is false again, and session, autoRun, the order list and the grid meta
\* are as before.
C22_FailedGridActionKeepsState ==
    [][GridActionFailed =>
          /\ err' # <<>>
          /\ busy' = FALSE
          /\ session' = session
          /\ autoRun' = autoRun
          /\ gridOrders' = gridOrders
          /\ gridMeta' = gridMeta]_vars

\* a stop failed with a timeout while the grid was running with autorun on
C22_Witness ==
    /\ ev.op = "gridActAnswer"
    /\ ev.act = "stop"
    /\ ev.stage = "post"
    /\ ev.kind = "timeout"
    /\ err = T_Timeout
    /\ ~busy
    /\ session = "RUNNING"
    /\ autoRun
    /\ gridOrders # <<>>
    /\ gridMeta # Null

-----------------------------------------------------------------------------
(* The routes of a manual order *)

\* the answer has a 2xx status
Is2xx(resp) == resp.kind = "http" /\ resp.ok

\* the answer has the status 404
Is404(resp) == resp.kind = "http" /\ ~resp.ok /\ resp.status = 404

\* the step went on to the next route
RouteAdvanced ==
    /\ gridAct'.op = "manual"
    /\ gridAct'.stage = "post"
    /\ gridAct'.route = gridAct.route + 1

\* C29: addManualOrder advances to the next route only when the attempt
\* failed with a 404; the first 2xx answer ends the sequence as a success
\* (the order list is reloaded, price and quantity are cleared, no error);
\* any failure that is not a 404 ends it with that error.
C29_RoutesAdvanceOnlyOn404 ==
    [][/\ ev'.op = "manualAnswer" =>
            /\ RouteAdvanced => Is404(ev'.resp)
            /\ Is2xx(ev'.resp) =>
                  /\ gridAct'.op = "manual"
                  /\ gridAct'.stage = "reload"
                  /\ err' = <<>>
            /\ (~Is2xx(ev'.resp) /\ ~Is404(ev'.resp)) =>
                  /\ gridAct' = IdleAct
                  /\ err' = errorMessage(ev'.resp)
                  /\ busy' = FALSE
       /\ (ev'.op = "gridActReload" /\ ev'.act = "manual") =>
            /\ manualPrice' = <<>>
            /\ manualQty' = <<>>]_vars

\* the parts of C29, each alone
C29_AdvanceOnly404 ==
    [][(ev'.op = "manualAnswer" /\ RouteAdvanced) => Is404(ev'.resp)]_vars

C29_First2xxSucceeds ==
    [][(ev'.op = "manualAnswer" /\ Is2xx(ev'.resp)) =>
          (gridAct'.op = "manual" /\ gridAct'.stage = "reload" /\ err' = <<>>)]_vars

C29_Every404Advances ==
    [][(ev'.op = "manualAnswer" /\ Is404(ev'.resp) /\ gridAct.route < ManualRoutes) =>
          RouteAdvanced]_vars

-----------------------------------------------------------------------------
(* The FAST merge into a record without multi-day metrics (SpecHealth) *)

\* the last step merged a FAST result into a stored record that has no
\* multi-day metric
OverlayCase ==
    /\ FastApplied
    /\ ev.before # Null
    /\ ~HasMultiDay(Metrics(ev.before[1]))

\* every field of the object inc is in r with inc's value, every other field
\* of p is in r with p's value
Overlaid(r, p, inc) ==
    /\ \A f \in DOMAIN inc : f \in DOMAIN r /\ r[f] = inc[f]
    /\ \A f \in DOMAIN p \ DOMAIN inc : f \in DOMAIN r /\ r[f] = p[f]

\* C23 (as claimed): the FAST result overlays the stored record field by
\* field, at the top level and inside metrics: supplied fields take the
\* incoming value, the others keep the stored value.
C23_OverlayWithMetricsSubFields ==
    OverlayCase =>
        LET r == marketHealthMap[ev.sym]
            p == ev.before[1]
            inc == ev.ret[1]
        IN  /\ Overlaid([f \in DOMAIN r \ {"metrics"} |-> r[f]],
                        [f \in DOMAIN p \ {"metrics"} |-> p[f]],
                        [f \in DOMAIN inc \ {"metrics"} |-> inc[f]])
            /\ Overlaid(Metrics(r), Metrics(p), Metrics(inc))

\* C23 (amended): the FAST result overlays the stored record at the top
\* level: every top-level field the incoming record supplies, metrics as a
\* whole among them, takes the incoming value, and every top-level field it
\* does not supply keeps the stored value.
C23_OverlayTopLevel ==
    OverlayCase =>
        LET r == marketHealthMap[ev.sym]
        IN  /\ Overlaid(r, ev.before[1], ev.ret[1])
            /\ DOMAIN r = DOMAIN ev.before[1] \cup DOMAIN ev.ret[1]

\* the stored record had a field the FAST result lacks, and a field for which
\* the FAST result brought another value
C23_Witness ==
    /\ OverlayCase
    /\ DOMAIN ev.before[1] \ DOMAIN ev.ret[1] # {}
    /\ \E f \in DOMAIN ev.before[1] \cap DOMAIN ev.ret[1] : ev.before[1][f] # ev.ret[1][f]

-----------------------------------------------------------------------------
(* The same FULL result applied twice (SpecHealth) *)

\* the last two results applied to S are FULL results with the same data,
\* and the last step applied the second of them
SameFullTwice(S) ==
    /\ FullApplied /\ ev.sym = S
    /\ S \in DOMAIN applied
    /\ Len(applied[S]) >= 2
    /\ LET a == applied[S][Len(applied[S]) - 1]
           b == applied[S][Len(applied[S])]
       IN  ~a.fast /\ ~b.fast /\ a.data = b.data

\* C24: merging the same FULL record a second time leaves the in-memory
\* record and the data of the persisted record as they were after the first
\* time: both are that record.
C24_FullMergeIdempotent ==
    \A S \in DOMAIN applied :
        SameFullTwice(S) =>
            /\ CurRecord(S) = ev.before
            /\ CurRecord(S) = ev.ret
            /\ ev.lsBefore # Null
            /\ S \in DOMAIN lsHealth
            /\ lsHealth[S].data = ev.lsBefore[1].data
            /\ lsHealth[S].data = ev.ret[1]

\* the same FULL record, one with reasons, was applied twice after another
\* record had been stored for the symbol
C24_Witness ==
    \E S \in DOMAIN applied :
        /\ SameFullTwice(S)
        /\ Len(applied[S]) >= 3
        /\ applied[S][1].data # applied[S][2].data
        /\ "reasons" \in DOMAIN ev.ret[1]

-----------------------------------------------------------------------------
(* The persisted FULL record (SpecHealth) *)

\* the FULL results in a history, oldest first
IsFullEntry(e) == ~e.fast
FullsOf(h) == SelectSeq(h, IsFullEntry)

\* a step that completes a FAST request leaves every persisted record alone
FastLeavesPersisted == (ev'.op = "health" /\ ev'.fast) => lsHealth' = lsHealth

\* a record is persisted for S exactly when a FULL result was applied to S,
\* and its data is that of the last one
PersistedIsLastFull ==
    \A S \in DOMAIN lsHealth \cup DOMAIN applied :
        LET fulls == FullsOf(IF S \in DOMAIN applied THEN applied[S] ELSE <<>>)
        IN  /\ S \in DOMAIN lsHealth <=> fulls # <<>>
            /\ S \in DOMAIN lsHealth => lsHealth[S].data = fulls[Len(fulls)].data

-----------------------------------------------------------------------------
(* refreshAll with a symbol as primary input (SpecDex) *)

\* the step is a click on Refresh All
RefreshAllStep == ev'.op = "refreshAll" /\ ev' # ev

\* the call sends the DEX requests /api/health and /api/watchlist/live
SendsDexRequests == allReqs' # allReqs

\* C28: when the primary input is a symbol (a short ticker-like text),
\* refreshAll sends neither /api/watchlist/live nor the DEX /api/health; it
\* refreshes the watchlist snapshot instead.
C28_SymbolNeverCallsLive ==
    [][(RefreshAllStep /\ isLikelySymbol(primaryItemId)) =>
          (~SendsDexRequests /\ wlReqs' # wlReqs)]_vars

\* what the code guarantees: the same for a symbol of the watchlist
C28_WatchlistSymbolNeverCallsLive ==
    [][(RefreshAllStep /\ primarySym # <<>>) =>
          (~SendsDexRequests /\ wlReqs' # wlReqs)]_vars

-----------------------------------------------------------------------------
(* Health results and snapshot rows of different symbols *)

\* the answers to a snapshot request kept here
IndepSnapResponses(items) ==
    {HttpJson(TRUE, [results |-> Some(Rows(items, Some(200)))]),
     [kind |-> "neterr"]}

\* the answer to a health request kept here
IndepHealthResponses == {HttpJson(TRUE, H_fast1)}

\* The returning visitor refreshes the health and the snapshots of the
\* selection and types an unknown symbol into the primary input; the
\* requests complete in any order.
NextIndep ==
    \/ refreshSelectedHealthNow
    \/ \E q \in healthReqs : \E resp \in IndepHealthResponses : healthResponse(q, resp)
    \/ healthFullTimer
    \/ healthBusyTimer
    \/ refreshSelectedSnapshots
    \/ \E rq \in wlReqs : \E resp \in IndepSnapResponses(rq.items) : wlResponse(rq, resp)
    \/ setPrimaryItemId(T_ZZZ)

SpecIndep == InitReturning /\ [][NextIndep]_vars

\* m'[J] is m[J] for every key J outside Is, and no such key comes or goes
FrameOutside(m1, m0, Is) ==
    /\ DOMAIN m1 \ Is = DOMAIN m0 \ Is
    /\ \A J \in DOMAIN m0 \ Is : m1[J] = m0[J]

\* a health request for I completed: nothing of another symbol changes
HealthResultFrame ==
    ev'.op = "health" =>
        /\ FrameOutside(marketHealthMap', marketHealthMap, {ev'.sym})
        /\ FrameOutside(lsHealth', lsHealth, {ev'.sym})
        /\ wlCache' = wlCache

\* a snapshot request completed: the cache entries of the symbols without a
\* row and the persisted health records are unchanged
SnapshotRowsFrameCache ==
    ev'.op = "wlResponse" =>
        /\ FrameOutside(wlCache', wlCache, IF ev'.ok THEN RowSymbols(wlSnapshots') ELSE {})
        /\ lsHealth' = lsHealth

\* a snapshot request completed: the in-memory health records of the symbols
\* without a row are unchanged
SnapshotRowsFrameHealth ==
    ev'.op = "wlResponse" =>
        FrameOutside(marketHealthMap', marketHealthMap,
                     IF ev'.ok THEN RowSymbols(wlSnapshots') ELSE {})

\* C25: applying a health result or a snapshot row for a symbol I leaves the
\* in-memory health record, the snapshot cache entry and the persisted
\* full-health record of every other symbol unchanged, whatever the order of
\* the completions.
C25_IdentitiesIndependent ==
    [][HealthResultFrame /\ SnapshotRowsFrameCache /\ SnapshotRowsFrameHealth]_vars

\* the parts of C25 that hold
C25_AppliersFrame == [][HealthResultFrame /\ SnapshotRowsFrameCache]_vars

-----------------------------------------------------------------------------
(* Wallet, backend sign-in and the idle sign-out *)

\* IDLE_MS, in minutes
IDLE_MIN == 30

MaxListeners == 2

T_token == <<"j","w","t">>
W_ab == <<"0","x","a","b">>
W_AB == <<"0","x","A","B">>
W_cd == <<"0","x","c","d">>

toLowerCase(t) == [i \in 1..Len(t) |-> ToLowerChar(t[i])]

Wallet(address, chainId, connector) ==
    [address |-> address, chainId |-> chainId, connector |-> connector]

\* localStorage after persistWallet(w): saveJson swallows a failing write
persistWallet(w) == IF storageDown THEN lsWallet ELSE Some(w)

\* the listener that a connect registers keeps the walletAddress and the
\* walletChainId of the render the connect function was created in
NewListener(connector) ==
    [connector |-> connector, captured |-> walletAddress, chainId |-> walletChainId]

\* connectInjected() with the wallet answering address on chain
connectInjected(address, chain) ==
    /\ mounted
    /\ Len(acctListeners) < MaxListeners
    /\ walletAddress' = address
    /\ walletChainId' = chain
    /\ walletConnector' = "injected"
    /\ lsWallet' = persistWallet(Wallet(address, chain, "injected"))
    /\ acctListeners' = Append(acctListeners, NewListener("injected"))
    /\ ev' = [op |-> "connect", connector |-> "injected"]
    /\ UNCHANGED <<selVars, wlVars, healthVars, dexVars, ordVars, err, lsVars, formVars,
                   gridActVars, authToken, lsToken, lsLastActivity, now, applied, refreshes>>

\* connectWalletConnect(): returns at once when the state already names a
\* WalletConnect wallet
connectWalletConnect(address, chain) ==
    /\ mounted
    /\ Len(acctListeners) < MaxListeners
    /\ IF walletConnector = "walletconnect" /\ walletAddress # <<>>
       THEN UNCHANGED <<walletVars, lsWallet, acctListeners>>
       ELSE /\ walletAddress' = address
            /\ walletChainId' = chain
            /\ walletConnector' = "walletconnect"
            /\ lsWallet' = persistWallet(Wallet(address, chain, "walletconnect"))
            /\ acctListeners' = Append(acctListeners, NewListener("walletconnect"))
    /\ ev' = [op |-> "connect", connector |-> "walletconnect"]
    /\ UNCHANGED <<selVars, wlVars, healthVars, dexVars, ordVars, err, lsVars, formVars,
                   gridActVars, authToken, lsToken, lsLastActivity, now, applied, refreshes>>

\* signInBackend(): nonce, signature and verify succeed (ok) or one of them
\* fails; the token is stored before it is set
signInBackend(ok) ==
    /\ mounted
    /\ IF ok /\ walletAddress # <<>> /\ ~storageDown
       THEN /\ lsToken' = T_token
            /\ authToken' = T_token
       ELSE UNCHANGED <<lsToken, authToken>>
    /\ ev' = [op |-> "signIn", ok |-> ok]
    /\ UNCHANGED <<selVars, wlVars, healthVars, dexVars, ordVars, err, lsVars, formVars,
                   gridActVars, lsLastActivity, walletVars, acctListeners, lsWallet, now,
                   applied, refreshes>>

\* a listener asks for logout() when the new address is not empty, the address
\* it captured is not empty, and the two differ
ListenerLogsOut(l, a) ==
    a # <<>> /\ l.captured # <<>> /\ toLowerCase(a) # toLowerCase(l.captured)

\* the listeners of a provider, in the order they were registered
ListenersOf(connector) ==
    LET Mine(l) == l.connector = connector
    IN  SelectSeq(acctListeners, Mine)

\* the provider of connector emits accountsChanged([a]) (a empty: no account)
accountsChanged(connector, a) ==
    LET ls == ListenersOf(connector)
        last == ls[Len(ls)]
        out == \E i \in 1..Len(ls) : ListenerLogsOut(ls[i], a)
    IN  /\ mounted
        /\ ls # <<>>
        /\ walletAddress' = a
        /\ lsWallet' = persistWallet(Wallet(a,
                                            IF connector = "injected" THEN last.chainId
                                            ELSE walletChainId,
                                            connector))
        /\ IF out /\ ~storageDown
           THEN authToken' = <<>> /\ lsToken' = <<>>
           ELSE UNCHANGED <<authToken, lsToken>>
        /\ ev' = [op |-> "accountsChanged", connector |-> connector, a |-> a,
                  was |-> walletAddress, token |-> authToken]
        /\ UNCHANGED <<selVars, wlVars, healthVars, dexVars, ordVars, err, lsVars, formVars,
                       gridActVars, lsLastActivity, walletChainId, walletConnector,
                       acctListeners, now, applied, refreshes>>

\* disconnectWallet(): the WalletConnect provider is dropped with its
\* listeners, the listeners on window.ethereum stay
disconnectWallet ==
    LET Injected(l) == l.connector = "injected"
    IN  /\ mounted
        /\ walletAddress # <<>>
        /\ walletAddress' = <<>>
        /\ walletChainId' = Null
        /\ walletConnector' = ""
        /\ lsWallet' = persistWallet(Wallet(<<>>, Null, ""))
        /\ acctListeners' = SelectSeq(acctListeners, Injected)
        /\ thrown' = IF storageDown THEN "logout" ELSE thrown
        /\ IF storageDown
           THEN UNCHANGED <<authToken, lsToken>>
           ELSE authToken' = <<>> /\ lsToken' = <<>>
        /\ ev' = [op |-> "disconnect"]
        /\ UNCHANGED <<selVars, wlVars, healthVars, dexVars, ordVars, err, storageDown, mounted,
                       formVars, gridActVars, lsLastActivity, now, applied, refreshes>>

\* touchActivity(), on mousemove, keydown, click and touchstart
touchActivity ==
    /\ mounted
    /\ lsLastActivity' = IF storageDown THEN lsLastActivity ELSE now
    /\ ev' = [op |-> "activity"]
    /\ UNCHANGED <<selVars, wlVars, healthVars, dexVars, ordVars, err, lsVars, formVars,
                   gridActVars, authToken, lsToken, walletVars, acctListeners, lsWallet, now,
                   applied, refreshes>>

\* Date.now() - last > IDLE_MS, with now and last in hours
IdleTooLong(last) == (now - last) * 60 > IDLE_MIN

\* one run of the 5 s interval; an exception of localStorage is swallowed
idleCheck ==
    /\ mounted
    /\ IF ~storageDown /\ lsLastActivity # 0 /\ IdleTooLong(lsLastActivity)
       THEN authToken' = <<>> /\ lsToken' = <<>>
       ELSE UNCHANGED <<authToken, lsToken>>
    /\ ev' = [op |-> "idleCheck", last |-> lsLastActivity]
    /\ UNCHANGED <<selVars, wlVars, healthVars, dexVars, ordVars, err, lsVars, formVars,
                   gridActVars, lsLastActivity, walletVars, acctListeners, lsWallet, now,
                   applied, refreshes>>

\* what localStorage holds when the page is loaded: nothing (first visit), or
\* the wallet, the token and the activity time of an earlier visit
StoredSessions ==
    {[token |-> <<>>, wallet |-> Null, last |-> 0],
     [token |-> T_token, wallet |-> Some(Wallet(W_ab, Some(137), "injected")),
      last |-> StartTime],
     [token |-> T_token, wallet |-> Some(Wallet(W_ab, Some(137), "walletconnect")),
      last |-> StartTime]}

InitAuth ==
    /\ storageDown = FALSE
    /\ FormsEmpty
    /\ authToken = <<>>
    /\ NoWallet
    /\ \E st \in StoredSessions :
           /\ lsToken = st.token
           /\ lsWallet = st.wallet
           /\ lsLastActivity = st.last
    /\ BootState

NextAuth ==
    \/ Tick
    \/ mountApp
    \/ connectInjected(W_ab, Some(137))
    \/ connectWalletConnect(W_ab, Some(137))
    \/ \E ok \in BOOLEAN : signInBackend(ok)
    \/ \E c \in {"injected", "walletconnect"} : \E a \in {<<>>, W_AB, W_cd} :
           accountsChanged(c, a)
    \/ disconnectWallet
    \/ touchActivity
    \/ idleCheck

SpecAuth == InitAuth /\ [][NextAuth]_vars

-----------------------------------------------------------------------------
(* Properties of the sign-in (SpecAuth) *)

\* the activity recorded last is more than 30 minutes old
Expired == lsLastActivity # 0 /\ IdleTooLong(lsLastActivity)

\* an idle check that finds the recorded activity too old clears the token
\* and leaves the wallet alone
IdleCheckClears ==
    (ev'.op = "idleCheck" /\ Expired) =>
        /\ authToken' = <<>>
        /\ lsToken' = <<>>
        /\ walletVars' = walletVars

\* a page load that finds the recorded activity too old yields no usable token
NoTokenAfterIdleLoad ==
    (ev'.op = "mount" /\ ~mounted /\ Expired) => authToken' = <<>>

\* C26: when the recorded activity is more than 30 minutes old the next idle
\* check clears the token and leaves wallet address, chain and connector
\* unchanged; no token is usable after more than 30 minutes without
\* activity.
C26_IdleSignOut == [][IdleCheckClears /\ NoTokenAfterIdleLoad]_vars

\* the parts of C26, each alone
C26_IdleCheckClears == [][IdleCheckClears]_vars

C26_NoTokenAfterIdleLoad == [][NoTokenAfterIdleLoad]_vars

\* a wallet is connected, a token is held, and the provider of the wallet
\* reports another, non-empty address
AccountReplaced ==
    /\ ev'.op = "accountsChanged"
    /\ ev'.connector = walletConnector
    /\ authToken # <<>>
    /\ walletAddress # <<>>
    /\ ev'.a # <<>>
    /\ toLowerCase(ev'.a) # toLowerCase(walletAddress)

\* C30: once a wallet is connected and a token obtained, an accountsChanged
\* event with a non-empty address other than the connected one clears the
\* token.
C30_AccountChangeClearsToken == [][AccountReplaced => authToken' = <<>>]_vars

\* what the code guarantees: the token is cleared when the new address differs
\* from the address a listener captured when it was registered
C30_ClearedWhenCapturedDiffers ==
    [][(AccountReplaced /\ \E i \in 1..Len(acctListeners) :
            /\ acctListeners[i].connector = ev'.connector
            /\ ListenerLogsOut(acctListeners[i], ev'.a))
          => authToken' = <<>>]_vars

====
